---- MODULE Spec2Model ----
(***************************************************************************)
(* Model of the episode index / metadata cache of AniWorld-Downloader      *)
(* (src/src/aniworld/common/db.py): the filesystem indexer scan_directory, *)
(* the existence query episode_exists, the TTL metadata cache, the         *)
(* download statistics, the connection lock and the get_db singleton,      *)
(* and of the end of handle_download_action (src/src/aniworld/execute.py), *)
(* which saves the statistic of a download and rescans its directory.      *)
(*                                                                         *)
(* Text is modelled as sequences of one-character strings, so that         *)
(* parsing, sanitizing and SQL LIKE matching are computed character by     *)
(* character as the code computes them.                                    *)
(***************************************************************************)
EXTENDS Integers, Sequences, FiniteSets, TLC

(***************************************************************************)
(* Text helpers (Python str / SQLite TEXT semantics).                      *)
(***************************************************************************)

Digits == {"0", "1", "2", "3", "4", "5", "6", "7", "8", "9"}

\* str.lower() / ASCII case folding of SQLite LIKE and re.IGNORECASE.
Lower(c) ==
    CASE c = "A" -> "a" [] c = "B" -> "b" [] c = "C" -> "c" [] c = "D" -> "d"
      [] c = "E" -> "e" [] c = "F" -> "f" [] c = "G" -> "g" [] c = "H" -> "h"
      [] c = "I" -> "i" [] c = "J" -> "j" [] c = "K" -> "k" [] c = "L" -> "l"
      [] c = "M" -> "m" [] c = "N" -> "n" [] c = "O" -> "o" [] c = "P" -> "p"
      [] c = "Q" -> "q" [] c = "R" -> "r" [] c = "S" -> "s" [] c = "T" -> "t"
      [] c = "U" -> "u" [] c = "V" -> "v" [] c = "W" -> "w" [] c = "X" -> "x"
      [] c = "Y" -> "y" [] c = "Z" -> "z" [] OTHER -> c

DigitVal(c) ==
    CASE c = "0" -> 0 [] c = "1" -> 1 [] c = "2" -> 2 [] c = "3" -> 3
      [] c = "4" -> 4 [] c = "5" -> 5 [] c = "6" -> 6 [] c = "7" -> 7
      [] c = "8" -> 8 [] c = "9" -> 9

RECURSIVE IntOf(_)
\* int("01") = 1: decimal value of a digit string.
IntOf(ds) ==
    IF ds = <<>> THEN 0
    ELSE 10 * IntOf(SubSeq(ds, 1, Len(ds) - 1)) + DigitVal(ds[Len(ds)])

RECURSIVE LStrip(_)
LStrip(s) == IF s # <<>> /\ Head(s) = " " THEN LStrip(Tail(s)) ELSE s

RECURSIVE RStrip(_)
RECURSIVE RStripSlash(_)
RStripSlash(s) ==
    IF s # <<>> /\ s[Len(s)] = "/" THEN RStripSlash(SubSeq(s, 1, Len(s) - 1)) ELSE s

RStrip(s) ==
    IF s # <<>> /\ s[Len(s)] = " " THEN RStrip(SubSeq(s, 1, Len(s) - 1)) ELSE s

\* str.strip()
Strip(s) == RStrip(LStrip(s))

\* str.replace(" ", c) for a one-character replacement c.
ReplaceSpace(s, c) == [i \in 1..Len(s) |-> IF s[i] = " " THEN c ELSE s[i]]

RECURSIVE DropChars(_, _)
DropChars(s, bad) ==
    IF s = <<>> THEN <<>>
    ELSE IF Head(s) \in bad THEN DropChars(Tail(s), bad)
    ELSE <<Head(s)>> \o DropChars(Tail(s), bad)

\* str.split()[0]: the first whitespace-separated word; "raise" stands for the
\* IndexError of indexing the empty list that "".split() returns.
FirstWord(s) ==
    LET t == LStrip(s)
        n == IF \E i \in 1..Len(t) : t[i] = " "
             THEN (CHOOSE i \in 1..Len(t) :
                      t[i] = " " /\ \A j \in 1..(i - 1) : t[j] # " ") - 1
             ELSE Len(t)
    IN IF t = <<>> THEN "raise" ELSE SubSeq(t, 1, n)

RECURSIVE Like(_, _)
\* SQLite's LIKE: % matches any run of characters, _ any one character, every
\* other character matches itself without regard to ASCII case.
Like(p, s) ==
    IF p = <<>> THEN s = <<>>
    ELSE IF Head(p) = "%"
         THEN Like(Tail(p), s) \/ (s # <<>> /\ Like(p, Tail(s)))
         ELSE /\ s # <<>>
              /\ (Head(p) = "_" \/ Lower(Head(p)) = Lower(Head(s)))
              /\ Like(Tail(p), Tail(s))

(***************************************************************************)
(* common.sanitize_path                                                    *)
(***************************************************************************)

InvalidChars == {"\\", "/", ":", "*", "?", "\"", "<", ">", "|", "&"}

sanitize_path(path) == DropChars(path, InvalidChars)

(***************************************************************************)
(* A backtracking matcher for the regular expressions of _parse_filename.  *)
(* A pattern is a sequence of tokens; re.match anchors it at the start of  *)
(* the text and not at its end.  Every "lazy", "lazy1", "greedy" and       *)
(* "digits" token is a capture group.                                      *)
(***************************************************************************)

Lit(s) == [i \in 1..Len(s) |-> [t |-> "lit", c |-> s[i]]]
Lazy == <<[t |-> "lazy"]>>
Lazy1 == <<[t |-> "lazy1"]>>
Greedy == <<[t |-> "greedy"]>>
DigitRun == <<[t |-> "digits"]>>
Class(cs) == <<[t |-> "class", cs |-> cs]>>
Alt(a, b) == <<[t |-> "alt", a |-> a, b |-> b]>>

NoMatch == [ok |-> FALSE, caps |-> <<>>]

RECURSIVE LeadingDigits(_)
LeadingDigits(s) ==
    IF s # <<>> /\ Head(s) \in Digits THEN 1 + LeadingDigits(Tail(s)) ELSE 0

\* s starts with the literal w, ignoring case.
StartsWithCI(s, w) ==
    /\ Len(s) >= Len(w)
    /\ \A i \in 1..Len(w) : Lower(s[i]) = Lower(w[i])

RECURSIVE ReMatch(_, _, _)
RECURSIVE ReTry(_, _, _, _, _, _)

\* Try the capture lengths n, n + step, ... up to the limit, first success wins.
ReTry(rest, s, caps, n, limit, step) ==
    IF (step > 0 /\ n > limit) \/ (step < 0 /\ n < limit) THEN NoMatch
    ELSE LET r == ReMatch(rest, SubSeq(s, n + 1, Len(s)),
                          Append(caps, SubSeq(s, 1, n)))
         IN IF r.ok THEN r ELSE ReTry(rest, s, caps, n + step, limit, step)

ReMatch(toks, s, caps) ==
    IF toks = <<>> THEN [ok |-> TRUE, caps |-> caps]
    ELSE LET k == Head(toks)
             rest == Tail(toks)
         IN CASE k.t = "lit" ->
                   IF s # <<>> /\ Lower(Head(s)) = Lower(k.c)
                   THEN ReMatch(rest, Tail(s), caps) ELSE NoMatch
              [] k.t = "class" ->
                   IF s # <<>> /\ Head(s) \in k.cs
                   THEN ReMatch(rest, Tail(s), caps) ELSE NoMatch
              [] k.t = "alt" ->
                   LET ra == IF StartsWithCI(s, k.a)
                             THEN ReMatch(rest, SubSeq(s, Len(k.a) + 1, Len(s)), caps)
                             ELSE NoMatch
                   IN IF ra.ok THEN ra
                      ELSE IF StartsWithCI(s, k.b)
                           THEN ReMatch(rest, SubSeq(s, Len(k.b) + 1, Len(s)), caps)
                           ELSE NoMatch
              [] k.t = "lazy" -> ReTry(rest, s, caps, 0, Len(s), 1)
              [] k.t = "lazy1" -> ReTry(rest, s, caps, 1, Len(s), 1)
              [] k.t = "greedy" -> ReTry(rest, s, caps, Len(s), 0, -1)
              [] k.t = "digits" -> ReTry(rest, s, caps, LeadingDigits(s), 1, -1)

(***************************************************************************)
(* EpisodeDatabase._parse_filename and _extract_language_from_path         *)
(***************************************************************************)

SepS == <<" ", "-", " ", "S">>
OpenParen == <<" ", "(">>
WordMovie == <<"M", "o", "v", "i", "e">>
WordStaffel == <<"S", "t", "a", "f", "f", "e", "l">>
WordSeason == <<"S", "e", "a", "s", "o", "n">>
WordEpisode == <<"E", "p", "i", "s", "o", "d", "e">>
WordFolge == <<"F", "o", "l", "g", "e">>

\* r"(.*?) - S(\d+)E(\d+) \((.*?)\)"
PatStandard ==
    Lazy \o Lit(SepS) \o DigitRun \o Lit(<<"E">>) \o DigitRun
         \o Lit(OpenParen) \o Lazy \o Lit(<<")">>)

\* r"(.*?) S(\d+)E(\d+) (.*)"
PatPlain ==
    Lazy \o Lit(<<" ", "S">>) \o DigitRun \o Lit(<<"E">>) \o DigitRun
         \o Lit(<<" ">>) \o Greedy

\* r"(.*?) - Movie (\d+) \((.*?)\)"
PatMovie ==
    Lazy \o Lit(<<" ", "-", " ">>) \o Lit(WordMovie) \o Lit(<<" ">>) \o DigitRun
         \o Lit(OpenParen) \o Lazy \o Lit(<<")">>)

\* r"(.*?) (?:Staffel|Season) (\d+) (?:Episode|Folge) (\d+) (.*)"
PatWords ==
    Lazy \o Lit(<<" ">>) \o Alt(WordStaffel, WordSeason) \o Lit(<<" ">>)
         \o DigitRun \o Lit(<<" ">>) \o Alt(WordEpisode, WordFolge)
         \o Lit(<<" ">>) \o DigitRun \o Lit(<<" ">>) \o Greedy

\* r"(.+?)[\._]S(\d+)E(\d+)[\._](.*)"
PatDotted ==
    Lazy1 \o Class({".", "_"}) \o Lit(<<"S">>) \o DigitRun \o Lit(<<"E">>)
          \o DigitRun \o Class({".", "_"}) \o Greedy

\* r"(.*?) Movie (\d+) (.*)"
PatMoviePlain ==
    Lazy \o Lit(<<" ">>) \o Lit(WordMovie) \o Lit(<<" ">>) \o DigitRun
         \o Lit(<<" ">>) \o Greedy

\* The list "patterns" (the standard pattern is listed twice in the source).
patterns ==
    <<PatStandard, PatStandard, PatPlain, PatMovie, PatWords, PatDotted>>

movie_patterns == <<PatMovie, PatMoviePlain>>

\* int(s) succeeds on an optionally space-padded, non-empty run of digits.
IsIntText(s) ==
    LET t == Strip(s) IN t # <<>> /\ \A i \in 1..Len(t) : t[i] \in Digits

\* substring test "needle.lower() in hay.lower()"
ContainsCI(hay, needle) ==
    \E i \in 0..(Len(hay) - Len(needle)) :
        \A j \in 1..Len(needle) : Lower(hay[i + j]) = Lower(needle[j])

LangGermanDub == <<"G", "e", "r", "m", "a", "n", " ", "D", "u", "b">>
LangGermanSub == <<"G", "e", "r", "m", "a", "n", " ", "S", "u", "b">>
LangEnglishSub == <<"E", "n", "g", "l", "i", "s", "h", " ", "S", "u", "b">>
LangEnglishDub == <<"E", "n", "g", "l", "i", "s", "h", " ", "D", "u", "b">>
LangUnknown == <<"U", "n", "k", "n", "o", "w", "n">>

languages == <<LangGermanDub, LangGermanSub, LangEnglishSub, LangEnglishDub>>

\* One round of the loop body: does the label or one of its alternative
\* spellings (including its bare first word) occur in the path?
LanguageHit(language, file_path) ==
    \/ ContainsCI(file_path, language)
    \/ \E alt \in {ReplaceSpace(language, "."), ReplaceSpace(language, "_"),
                   ReplaceSpace(language, "-"), FirstWord(language)} :
           ContainsCI(file_path, alt)

RECURSIVE ExtractFrom(_, _)
ExtractFrom(i, file_path) ==
    IF i > Len(languages) THEN LangUnknown
    ELSE IF LanguageHit(languages[i], file_path) THEN languages[i]
    ELSE ExtractFrom(i + 1, file_path)

_extract_language_from_path(file_path) == ExtractFrom(1, file_path)

NoInfo == [ok |-> FALSE]

Info(title, season, episode, language) ==
    [ok |-> TRUE, title |-> title, season |-> season, episode |-> episode,
     language |-> language]

\* The second loop (movie_patterns): a match with three groups is a movie of
\* season 0.
RECURSIVE ParseMovie(_, _, _)
ParseMovie(i, filename, file_path) ==
    IF i > Len(movie_patterns) THEN NoInfo
    ELSE LET m == ReMatch(movie_patterns[i], filename, <<>>)
         IN IF ~m.ok THEN ParseMovie(i + 1, filename, file_path)
            ELSE Info(Strip(m.caps[1]), 0, IntOf(Strip(m.caps[2])),
                      Strip(m.caps[3]))

\* The first loop (patterns): the first pattern that matches decides.  A match
\* with four groups yields them; a match with three groups is unpacked as
\* (title, season, episode) and int() of the third group raises ValueError
\* unless it is a number, which the enclosing except turns into None.
RECURSIVE ParseFrom(_, _, _)
ParseFrom(i, filename, file_path) ==
    IF i > Len(patterns) THEN ParseMovie(1, filename, file_path)
    ELSE LET m == ReMatch(patterns[i], filename, <<>>)
         IN IF ~m.ok THEN ParseFrom(i + 1, filename, file_path)
            ELSE IF Len(m.caps) = 4
                 THEN Info(Strip(m.caps[1]), IntOf(Strip(m.caps[2])),
                           IntOf(Strip(m.caps[3])), Strip(m.caps[4]))
                 ELSE IF IsIntText(m.caps[3])
                      THEN Info(Strip(m.caps[1]), IntOf(Strip(m.caps[2])),
                                IntOf(Strip(m.caps[3])),
                                _extract_language_from_path(file_path))
                      ELSE NoInfo

_parse_filename(filename, file_path) == ParseFrom(1, filename, file_path)

(***************************************************************************)
(* Bounds of the model and constants of the program.                       *)
(***************************************************************************)

MaxTicks == 1
MaxFsOps == 1
MaxCalls == 3
\* Calls in the runs with several threads.
MaxConcCalls == 2
MaxMetaOps == 2
\* Calls of the lookups and of save_download_stats.
MaxApiCalls == 2
MaxGetDb == 2
\* Seconds that one step of the clock adds.
TickLen == 3600
\* The clock (time.time(), in whole seconds) when the model starts.
Epoch0 == 1700000000
\* A time-to-live longer than the clock ever reads.
HugeTtl == 2000000000

\* "if time.time() - last_scan < 3600"
ScanWindow == 3600
\* "if new_files_count % 100 == 0"
CommitEvery == 100

\* A scan of a directory with more files than CommitEvery.
MaxBatchFiles == 101

\* No scan of a large directory has begun.
NoBatch ==
    [pc |-> "idle", i |-> 0, new_files_count |-> 0, uncommitted |-> 0,
     dirty |-> FALSE, other |-> FALSE]

\* The scan never commits before its end.
CommitDueNever(new_files_count) == FALSE

\* if new_files_count % 100 == 0: self.db.commit()
CommitDue(new_files_count) == new_files_count % CommitEvery = 0
\* max_age=86400
DefaultMaxAge == 86400

Threads == {"t1", "t2"}
NoThread == "none"
NoFile == 0 - 1
NoTime == 0 - 1
\* None for a season or an episode number.
NoNumber == 0 - 1

(***************************************************************************)
(* The download tree: two directories, one nested in the other, and the    *)
(* files that may appear in them.                                          *)
(***************************************************************************)

DirA == <<"/", "a">>
DirB == <<"/", "a", "/", "b">>
ScanDirs == {DirA, DirB}
\* A directory outside the download tree, never scanned.
DirC == <<"/", "c">>
QueryDirs == {DirA, DirB, DirC}

\* "<title> - S<season>E<episode> (<language>).<ext>"
StdName(e) ==
    e.title \o SepS \o e.season \o <<"E">> \o e.episode \o OpenParen
            \o e.language \o <<")", ".">> \o e.ext

EpPlain ==
    [title |-> <<"T">>, season |-> <<"0", "1">>, episode |-> <<"0", "5">>,
     language |-> <<"G", " ", "D">>, ext |-> <<"m">>]
EpAmp ==
    [title |-> <<"T", "&", "U">>, season |-> <<"1">>, episode |-> <<"1">>,
     language |-> <<"G", " ", "D">>, ext |-> <<"m">>]
EpCopy == [EpPlain EXCEPT !.ext = <<"k">>]

Files == 1..4
StdFiles == 1..3

FileEp(i) == CASE i = 1 -> EpPlain [] i = 2 -> EpAmp [] i = 3 -> EpCopy

FileDir(i) == IF i \in {1, 4} THEN DirA ELSE DirB

FileName(i) == IF i \in StdFiles THEN StdName(FileEp(i)) ELSE <<"x", ".", "t">>

\* os.path.join(root, file)
FilePath(i) == FileDir(i) \o <<"/">> \o FileName(i)

IsPrefix(a, b) == Len(a) <= Len(b) /\ SubSeq(b, 1, Len(a)) = a

\* os.walk(directory) reaches the files of the directory and of the
\* directories below it.
Under(directory, i) ==
    FileDir(i) = directory \/ IsPrefix(directory \o <<"/">>, FileDir(i))

VARIABLES
    now,            \* the clock, int(time.time())
    dirs,           \* the directories that exist
    fs,             \* file -> mtime, or NoFile
    db,             \* the committed tables episode_files and scan_history
    writer,         \* the thread whose connection has an open write transaction
    work,           \* the tables as that connection sees them
    is_indexing,    \* EpisodeDatabase.is_indexing
    extracted_info, \* file -> what _parse_filename makes of its name and path
    pc,             \* thread -> where it is in scan_directory
    frame,          \* thread -> the locals of its scan_directory call
    ret,            \* thread -> the call that has just returned
    lastScan,       \* the call that returned before that
    completed,      \* directory -> last_scan written by its latest completed scan
    nTicks, nFsOps, nCalls,
    anime_metadata, season_metadata, episode_metadata, language_availability,
    q,              \* the latest metadata call and its result, until time passes
    saved,          \* slug -> arguments of its latest save_anime_metadata
    nMeta,
    nApi,           \* calls of the lookups and of save_download_stats so far
    _db_instance,   \* the module's global: 0 for None, else the instance
    made,           \* EpisodeDatabase objects constructed so far
    gpc,            \* thread -> where it is in get_db
    got,            \* thread -> the instances its get_db calls returned
    fresh,          \* thread -> the instance it has constructed and not yet stored
    no_tables,      \* the instances whose create_tables failed
    inside,         \* thread -> the instance whose lock it holds, 0 for none
    batch,          \* the file loop of one scan of a large directory
    inferred,       \* a path and the language inferred from it
    filename,       \* the name handed to _parse_filename
    parsed          \* what _parse_filename made of it

scanVars == <<db, writer, work, pc, frame, ret, lastScan, completed, nCalls>>
fsVars == <<dirs, fs, nFsOps>>
metaVars ==
    <<anime_metadata, season_metadata, episode_metadata, language_availability,
      q, saved, nMeta>>
dbVars == <<_db_instance, made, gpc, got, fresh, no_tables, inside>>
parseVars == <<filename, parsed>>
procVars == <<nApi, dbVars, parseVars, batch, inferred>>
vars ==
    <<now, nTicks, is_indexing, extracted_info, procVars, scanVars, fsVars, metaVars>>

(***************************************************************************)
(* SQLite: rowids, and connections in rollback-journal mode.               *)
(***************************************************************************)

MaxOf(S) == CHOOSE x \in S : \A y \in S : y <= x
MinOf(S) == CHOOSE x \in S : \A y \in S : x <= y

\* INTEGER PRIMARY KEY without a value: one more than the largest rowid.
NextId(rows) == IF rows = {} THEN 1 ELSE MaxOf({r.id : r \in rows}) + 1

\* cursor.fetchone() of a SELECT without ORDER BY: the table is read in rowid
\* order, so the row with the smallest id comes first.
FirstRow(rows) == CHOOSE r \in rows : r.id = MinOf({x.id : x \in rows})

\* What thread t's connection reads: its own uncommitted changes, else the
\* committed tables.
View(t) == IF writer = t THEN work ELSE db

\* A write succeeds unless another connection holds the write lock; then
\* SQLite answers "database is locked" (sqlite3.OperationalError).
CanWrite(t) == writer \in {NoThread, t}

(***************************************************************************)
(* EpisodeDatabase.episode_exists                                          *)
(***************************************************************************)

\* language_variants (without the first word, which may not exist)
SpelledVariants(language) ==
    {language, ReplaceSpace(language, "."), ReplaceSpace(language, "_"),
     ReplaceSpace(language, "-")}

\* title = ? OR title LIKE ? OR title LIKE ?
TitleMatches(title, sanitized_title) ==
    \/ title = sanitized_title
    \/ Like(sanitized_title \o <<"%">>, title)
    \/ Like(<<"%">> \o sanitized_title \o <<"%">>, title)

\* language LIKE ? OR ... for the five parameters "%variant%"
LanguageMatches(row_language, language) ==
    \E v \in SpelledVariants(language) \cup {FirstWord(language)} :
        Like(<<"%">> \o v \o <<"%">>, row_language)

\* The WHERE clause of the query for one row.
RowMatches(r, sanitized_title, season, episode, language) ==
    /\ TitleMatches(r.title, sanitized_title)
    /\ r.season = season
    /\ r.episode = episode
    /\ LanguageMatches(r.language, language)

\* language.split()[0] is evaluated before the try block: with no word in
\* the language the IndexError reaches the caller.
episode_exists(rows, anime_title, season, episode, language) ==
    IF LStrip(language) = <<>>
    THEN [raises |-> TRUE, found |-> FALSE]
    ELSE [raises |-> FALSE,
          found |-> \E r \in rows :
                       RowMatches(r, sanitize_path(anime_title), season,
                                  episode, language)]

(***************************************************************************)
(* EpisodeDatabase.scan_directory, one step per statement group.           *)
(***************************************************************************)

NoTables == [episode_files |-> {}, scan_history |-> {}, download_stats |-> {}]

\* The arguments of episode_exists and of save_download_stats: episode_id 0
\* for None, an empty title for None, has_language FALSE for language=None.
NoArgs ==
    [episode_id |-> 0, title |-> <<>>, season |-> NoNumber, episode |-> NoNumber,
     has_language |-> FALSE, language |-> <<>>]

IdleFrame ==
    [dir |-> <<>>, force |-> FALSE, existing |-> {}, todo |-> {}, count |-> 0,
     current_time |-> 0, snap |-> NoTables, fsops |-> 0, at |-> 0,
     prevRec |-> NoTime, blocked |-> FALSE, slug |-> "", title |-> "", ttl |-> 0,
     found |-> 0, pending |-> {}, file |-> 0, stat |-> 0, new |-> FALSE]

NoRet ==
    [kind |-> "none", dir |-> <<>>, force |-> FALSE, result |-> 0,
     snap |-> NoTables, fsops |-> 0, at |-> 0, prevRec |-> NoTime,
     args |-> NoArgs, slug |-> "", title |-> "", file |-> 0, stat |-> 0,
     new |-> FALSE]

Returned(f, kind, result) ==
    [kind |-> kind, dir |-> f.dir, force |-> f.force, result |-> result,
     snap |-> f.snap, fsops |-> f.fsops, at |-> f.at, prevRec |-> f.prevRec,
     args |-> NoArgs, slug |-> f.slug, title |-> f.title, file |-> f.file,
     stat |-> f.stat, new |-> f.new]

\* "if time.time() - last_scan < 3600"
RecentlyScanned(time_now, last_scan) == time_now - last_scan < ScanWindow

\* SELECT last_scan FROM scan_history WHERE directory = ?; fetchone(); the
\* scan is skipped when that row is younger than an hour.
SkipScan(v, directory, time_now) ==
    LET rows == {r \in v.scan_history : r.directory = directory}
    IN rows # {} /\ RecentlyScanned(time_now, FirstRow(rows).last_scan)

\* SELECT id, file_path, last_modified ... WHERE file_path LIKE 'directory%',
\* folded into the dict existing_files: a later row replaces an earlier one
\* of the same path.
LoadExisting(v, directory) ==
    LET rows == {r \in v.episode_files : Like(directory \o <<"%">>, r.file_path)}
    IN {[file_path |-> r.file_path, id |-> r.id, last_modified |-> r.last_modified] :
           r \in {x \in rows :
                     \A y \in rows : y.file_path = x.file_path => y.id <= x.id}}

\* "if file_mtime <= db_mtime: continue"
IsUnchangedStrict(file_mtime, db_mtime) == file_mtime < db_mtime
IsUnchanged(file_mtime, db_mtime) == file_mtime <= db_mtime

NewRow(rows, info, i, file_mtime, current_time) ==
    [id |-> NextId(rows), title |-> info.title, season |-> info.season,
     episode |-> info.episode, language |-> info.language,
     file_path |-> FilePath(i), file_name |-> FileName(i),
     last_modified |-> file_mtime, indexed_at |-> current_time]

\* The body of the loop over all_files for file i, on the tables v that the
\* connection sees.  Yields the tables after it, whether a statement wrote,
\* whether the hundredth insert committed, and new_files_count.
ProcessFile(v, canWrite, existing, i, count, current_time) ==
    LET hits == {e \in existing : e.file_path = FilePath(i)}
        known == hits # {}
        old == CHOOSE e \in hits : TRUE
        same == [v |-> v, wrote |-> FALSE, commit |-> FALSE, count |-> count]
    IN IF fs[i] = NoFile THEN same                \* os.path.getmtime: OSError
       ELSE IF known /\ IsUnchanged(fs[i], old.last_modified) THEN same
       ELSE IF known /\ ~canWrite THEN same       \* DELETE: database is locked
       ELSE LET v1 == IF known
                      THEN [v EXCEPT !.episode_files = {r \in @ : r.id # old.id}]
                      ELSE v
                info == extracted_info[i]
            IN IF ~info.ok
               THEN [v |-> v1, wrote |-> known, commit |-> FALSE, count |-> count]
               ELSE IF ~canWrite THEN same        \* INSERT: database is locked
               ELSE [v |-> [v1 EXCEPT !.episode_files =
                               @ \cup {NewRow(@, info, i, fs[i], current_time)}],
                     wrote |-> TRUE,
                     commit |-> CommitDue(count + 1),
                     count |-> count + 1]

\* os.path.exists(file_path)
PathExists(file_path) == \E i \in Files : FilePath(i) = file_path /\ fs[i] # NoFile

\* "DELETE FROM episode_files WHERE file_path = ?" for every path of
\* existing_files that is no longer on disk.
PurgeNothing(rows, existing) == rows
PurgeRows(rows, existing) ==
    {r \in rows :
        ~\E e \in existing : e.file_path = r.file_path /\ ~PathExists(e.file_path)}

\* The effect of a step of thread t on the connections.
Apply(t, r) ==
    IF r.commit THEN db' = r.v /\ work' = r.v /\ writer' = NoThread
    ELSE IF r.wrote THEN work' = r.v /\ writer' = t /\ db' = db
    ELSE UNCHANGED <<db, work, writer>>

\* Entry: the directory test and the skip test.
DirExistsAlways(directory) == TRUE

\* os.path.exists(directory).
DirExists(directory) == directory \in dirs

\* scan_directory up to its first statement, for a caller whose own
\* bookkeeping is in called.
ScanEnter(t, called, directory, force_rescan) ==
    /\ nCalls < MaxCalls
    /\ nCalls' = nCalls + 1
    /\ LET f == [called EXCEPT !.dir = directory, !.force = force_rescan,
                                !.snap = db, !.fsops = nFsOps, !.at = now,
                                !.prevRec = completed[directory]]
       IN IF ~DirExists(directory)
          THEN /\ pc' = [pc EXCEPT ![t] = "done"]
               /\ ret' = [ret EXCEPT ![t] = Returned(f, "nodir", 0)]
               /\ UNCHANGED frame
          ELSE IF ~force_rescan /\ SkipScan(View(t), directory, now)
          THEN /\ pc' = [pc EXCEPT ![t] = "done"]
               /\ ret' = [ret EXCEPT ![t] = Returned(f, "skipped", 0)]
               /\ UNCHANGED frame
          ELSE /\ pc' = [pc EXCEPT ![t] = "load"]
               /\ frame' = [frame EXCEPT ![t] = f]
               /\ UNCHANGED ret
    /\ UNCHANGED <<now, nTicks, is_indexing, extracted_info, procVars, db,
                   writer, work, lastScan, completed, fsVars, metaVars>>

ScanCall(t, directory, force_rescan) ==
    /\ pc[t] = "idle"
    /\ ScanEnter(t, IdleFrame, directory, force_rescan)

\* existing_files, current_time and the os.walk listing.
ScanLoad(t) ==
    /\ pc[t] = "load"
    /\ pc' = [pc EXCEPT ![t] = "walk"]
    /\ frame' = [frame EXCEPT
                    ![t].existing = LoadExisting(View(t), frame[t].dir),
                    ![t].current_time = now,
                    ![t].todo = IF frame[t].dir \in dirs
                                THEN {i \in Files : fs[i] # NoFile /\ Under(frame[t].dir, i)}
                                ELSE {}]
    /\ UNCHANGED <<now, nTicks, is_indexing, extracted_info, procVars, db,
                   writer, work, ret, lastScan, completed, nCalls, fsVars,
                   metaVars>>

\* One round of the loop over all_files, for file i of the listing.
ScanFile(t, i) ==
    /\ pc[t] = "walk"
    /\ i \in frame[t].todo
    /\ LET r == ProcessFile(View(t), CanWrite(t), frame[t].existing, i,
                            frame[t].count, frame[t].current_time)
       IN /\ Apply(t, r)
          /\ frame' = [frame EXCEPT ![t].todo = @ \ {i}, ![t].count = r.count,
                                    ![t].blocked = FALSE]
    /\ UNCHANGED <<now, nTicks, is_indexing, extracted_info, procVars, pc, ret,
                   lastScan, completed, nCalls, fsVars, metaVars>>

\* The loop that deletes the rows of vanished files; the first failing
\* DELETE ends it.
ScanPurge(t) ==
    /\ pc[t] = "walk"
    /\ frame[t].todo = {}
    /\ pc' = [pc EXCEPT ![t] = "record"]
    /\ LET v == View(t)
           gone == {e \in frame[t].existing : ~PathExists(e.file_path)}
       IN Apply(t, [v |-> [v EXCEPT !.episode_files = PurgeRows(@, frame[t].existing)],
                    wrote |-> gone # {} /\ CanWrite(t),
                    commit |-> FALSE])
    /\ frame' = [frame EXCEPT ![t].blocked = FALSE]
    /\ UNCHANGED <<now, nTicks, is_indexing, extracted_info, procVars, ret,
                   lastScan, completed, nCalls, fsVars, metaVars>>

\* INSERT OR REPLACE INTO scan_history (directory, last_scan), commit, return.
\* The table has no unique index on directory, so nothing is ever replaced.
ScanRecord(t) ==
    /\ pc[t] = "record"
    /\ pc' = [pc EXCEPT ![t] = "done"]
    /\ ret' = [ret EXCEPT ![t] = Returned(frame[t], "scanned", frame[t].count)]
    /\ frame' = [frame EXCEPT ![t] = IdleFrame]
    /\ LET v == View(t)
           row == [id |-> NextId(v.scan_history), directory |-> frame[t].dir,
                   last_scan |-> frame[t].current_time]
       IN IF CanWrite(t)
          THEN /\ Apply(t, [v |-> [v EXCEPT !.scan_history = @ \cup {row}],
                            wrote |-> TRUE, commit |-> TRUE])
               /\ completed' = [completed EXCEPT ![frame[t].dir] = frame[t].current_time]
          ELSE UNCHANGED <<db, work, writer, completed>>
    /\ UNCHANGED <<now, nTicks, is_indexing, extracted_info, procVars, lastScan,
                   nCalls, fsVars, metaVars>>

\* The caller takes the result.
ScanReturn(t) ==
    /\ pc[t] = "done"
    /\ ret[t].kind \in {"nodir", "skipped", "scanned"}
    /\ pc' = [pc EXCEPT ![t] = "idle"]
    /\ lastScan' = [kind |-> ret[t].kind, dir |-> ret[t].dir, fsops |-> ret[t].fsops]
    /\ ret' = [ret EXCEPT ![t] = NoRet]
    /\ UNCHANGED <<now, nTicks, is_indexing, extracted_info, procVars, db,
                   writer, work, frame, completed, nCalls, fsVars, metaVars>>

(***************************************************************************)
(* The lookups and save_download_stats, each one step of the calling       *)
(* thread; provider, download_speed, file_size, download_duration and      *)
(* status are stored as given and are left out.                            *)
(***************************************************************************)

\* EpisodeDatabase.get_episode_file: the first row that the query of
\* episode_exists matches.  language.replace of None raises AttributeError,
\* language.split()[0] of a language without a word raises IndexError, both
\* before the try block.
get_episode_file(rows, anime_title, season, episode, has_language, language) ==
    LET hits == {r \in rows :
                    RowMatches(r, sanitize_path(anime_title), season, episode,
                               language)}
    IN IF ~has_language \/ LStrip(language) = <<>>
       THEN [raises |-> TRUE, found |-> FALSE, id |-> 0]
       ELSE IF hits = {} THEN [raises |-> FALSE, found |-> FALSE, id |-> 0]
       ELSE [raises |-> FALSE, found |-> TRUE, id |-> FirstRow(hits).id]

\* "if not episode_id and anime_title and season is not None and episode is
\* not None"
NeedsLookup(a) ==
    a.episode_id = 0 /\ a.title # <<>> /\ a.season # NoNumber /\ a.episode # NoNumber

\* EpisodeDatabase.save_download_stats: the lookup, the INSERT and the
\* commit are inside one try block; whatever is raised there ends the call
\* with None (0).
StatsOutcome(t, a) ==
    LET v == View(t)
        episode_data == get_episode_file(v.episode_files, a.title, a.season,
                                         a.episode, a.has_language, a.language)
        episode_id == IF NeedsLookup(a) /\ episode_data.found
                      THEN episode_data.id ELSE a.episode_id
    IN [row |-> [id |-> NextId(v.download_stats), episode_id |-> episode_id,
                 download_date |-> now],
        fails |-> (NeedsLookup(a) /\ episode_data.raises) \/ ~CanWrite(t)]

\* A thread calls save_download_stats.
save_download_stats(t, a) ==
    /\ pc[t] = "idle"
    /\ nApi < MaxApiCalls
    /\ nApi' = nApi + 1
    /\ pc' = [pc EXCEPT ![t] = "done"]
    /\ LET v == View(t)
           row == StatsOutcome(t, a).row
           fails == StatsOutcome(t, a).fails
       IN /\ ret' = [ret EXCEPT ![t] =
                        [NoRet EXCEPT !.kind = "stats", !.args = a, !.snap = db,
                                      !.at = now,
                                      !.result = IF fails THEN 0 ELSE row.id]]
          /\ IF fails
             THEN UNCHANGED <<db, work, writer>>
             ELSE Apply(t, [v |-> [v EXCEPT !.download_stats = @ \cup {row}],
                            wrote |-> TRUE, commit |-> TRUE])
    /\ UNCHANGED <<now, nTicks, is_indexing, extracted_info, dbVars, parseVars,
                   batch, inferred, frame, lastScan, completed, nCalls, fsVars,
                   metaVars>>

\* A thread calls episode_exists.
EpisodeExistsCall(t, a) ==
    /\ pc[t] = "idle"
    /\ nApi < MaxApiCalls
    /\ nApi' = nApi + 1
    /\ pc' = [pc EXCEPT ![t] = "done"]
    /\ LET r == episode_exists(View(t).episode_files, a.title, a.season,
                               a.episode, a.language)
       IN ret' = [ret EXCEPT ![t] =
                     [NoRet EXCEPT !.kind = IF r.raises THEN "raised"
                                            ELSE IF r.found THEN "found"
                                            ELSE "missing",
                                   !.args = a, !.snap = db, !.at = now]]
    /\ UNCHANGED <<now, nTicks, is_indexing, extracted_info, dbVars, parseVars,
                   batch, inferred, db, writer, work, frame, lastScan,
                   completed, nCalls, fsVars, metaVars>>

\* os.path.dirname: the path up to its last "/", without trailing slashes
\* unless it is made of slashes only.
dirname(path) ==
    LET cut == {k \in 1..Len(path) : path[k] = "/"}
        head == IF cut = {} THEN <<>> ELSE SubSeq(path, 1, MaxOf(cut))
    IN IF head # <<>> /\ \E k \in 1..Len(head) : head[k] # "/"
       THEN RStripSlash(head)
       ELSE head

\* The loop "while parent and parent != directory": the directories above
\* directory.
RECURSIVE Ancestors(_)
AncestorsNone(directory) == {}
Ancestors(directory) ==
    LET parent == dirname(directory)
    IN IF parent # <<>> /\ parent # directory
       THEN {parent} \cup Ancestors(parent)
       ELSE {}

\* EpisodeDatabase.get_last_scan_time: SELECT MAX(last_scan) over the
\* directory and the directories above it; None (NoTime) when there is no
\* row or the maximum is 0.
get_last_scan_time(rows, directory) ==
    LET potential_dirs == {directory} \cup Ancestors(directory)
        times == {r.last_scan : r \in {x \in rows : x.directory \in potential_dirs}}
    IN IF times = {} \/ MaxOf(times \cup {0}) = 0 THEN NoTime ELSE MaxOf(times)

\* A thread calls get_last_scan_time.
GetLastScanTime(t, directory) ==
    /\ pc[t] = "idle"
    /\ nApi < MaxApiCalls
    /\ nApi' = nApi + 1
    /\ pc' = [pc EXCEPT ![t] = "done"]
    /\ ret' = [ret EXCEPT ![t] =
                  [NoRet EXCEPT !.kind = "last_scan", !.dir = directory,
                                !.snap = db, !.at = now,
                                !.result = get_last_scan_time(
                                               View(t).scan_history, directory)]]
    /\ UNCHANGED <<now, nTicks, is_indexing, extracted_info, dbVars, parseVars,
                   batch, inferred, db, writer, work, frame, lastScan,
                   completed, nCalls, fsVars, metaVars>>

\* The caller of a lookup or of save_download_stats takes the result.
CallReturn(t) ==
    /\ pc[t] = "done"
    /\ ret[t].kind \in {"stats", "found", "missing", "raised", "last_scan", "saved"}
    /\ pc' = [pc EXCEPT ![t] = "idle"]
    /\ ret' = [ret EXCEPT ![t] = NoRet]
    /\ UNCHANGED <<now, nTicks, is_indexing, extracted_info, procVars, db,
                   writer, work, frame, lastScan, completed, nCalls, fsVars,
                   metaVars>>

\* EpisodeDatabase.is_currently_indexing
is_currently_indexing == is_indexing

\* No name has been parsed yet.
NoParse == [done |-> FALSE, info |-> NoInfo]

\* No path has been handed to _extract_language_from_path.
NoInference == [file_path |-> <<>>, done |-> FALSE, language |-> <<>>]

\* The shapes of the metadata bookkeeping.
NoRow == [id |-> 0, slug |-> "", title |-> "", last_updated |-> 0, ttl |-> 0]

NoCall ==
    [op |-> "none", slug |-> "", season |-> 0, episode |-> 0, max_age |-> 0,
     ok |-> FALSE, found |-> FALSE, row |-> NoRow, langs |-> {},
     afterInvalidate |-> FALSE, parent |-> 0, language |-> "", flag |-> FALSE,
     id |-> 0, existed |-> FALSE]

NoSave == [set |-> FALSE, title |-> "", ttl |-> 0, at |-> 0, invalidated |-> FALSE]

(***************************************************************************)
(* The environment: the clock and the download tree.                       *)
(***************************************************************************)

\* The mtime of a file that was written before the model starts.
OldTime == Epoch0 - TickLen

\* The mtime of a backup copy that is older than the file it replaces.
BackupTime == OldTime - TickLen

Tick ==
    /\ nTicks < MaxTicks
    /\ nTicks' = nTicks + 1
    /\ now' = now + TickLen
    /\ q' = NoCall
    /\ UNCHANGED <<is_indexing, extracted_info, procVars, scanVars, fsVars,
                   anime_metadata, season_metadata, episode_metadata,
                   language_availability, saved, nMeta>>

\* A file is written (mtime now) or restored from a copy (its old mtime, or
\* the older one of a backup).
Touch(i, m) ==
    /\ nFsOps < MaxFsOps
    /\ FileDir(i) \in dirs
    /\ fs[i] # m
    /\ fs' = [fs EXCEPT ![i] = m]
    /\ nFsOps' = nFsOps + 1
    /\ UNCHANGED <<now, nTicks, is_indexing, extracted_info, procVars, dirs,
                   scanVars, metaVars>>

DeleteFile(i) ==
    /\ nFsOps < MaxFsOps
    /\ fs[i] # NoFile
    /\ fs' = [fs EXCEPT ![i] = NoFile]
    /\ nFsOps' = nFsOps + 1
    /\ UNCHANGED <<now, nTicks, is_indexing, extracted_info, procVars, dirs,
                   scanVars, metaVars>>

RenameFile(i, j) ==
    /\ nFsOps < MaxFsOps
    /\ i # j
    /\ fs[i] # NoFile
    /\ fs[j] = NoFile
    /\ FileDir(j) \in dirs
    /\ fs' = [fs EXCEPT ![i] = NoFile, ![j] = fs[i]]
    /\ nFsOps' = nFsOps + 1
    /\ UNCHANGED <<now, nTicks, is_indexing, extracted_info, procVars, dirs,
                   scanVars, metaVars>>

\* The nested directory is removed with what it holds.
RemoveDir ==
    /\ nFsOps < MaxFsOps
    /\ DirB \in dirs
    /\ dirs' = dirs \ {DirB}
    /\ fs' = [i \in Files |-> IF Under(DirB, i) THEN NoFile ELSE fs[i]]
    /\ nFsOps' = nFsOps + 1
    /\ UNCHANGED <<now, nTicks, is_indexing, extracted_info, procVars, scanVars,
                   metaVars>>

FsStep ==
    \/ \E i \in Files, m \in {now, OldTime, BackupTime} : Touch(i, m)
    \/ \E i \in Files : DeleteFile(i)
    \/ \E i \in Files, j \in Files : RenameFile(i, j)
    \/ RemoveDir

(***************************************************************************)
(* The metadata cache.  Every method runs its statements and commits       *)
(* before it returns; description, thumbnail_url, season_title,            *)
(* episode_count, episode_title and url are stored and returned like       *)
(* title and are left out.  Foreign keys are declared but SQLite does not  *)
(* enforce them on a connection that never sets PRAGMA foreign_keys.       *)
(***************************************************************************)

Slugs == {"s1", "s2"}
Titles == {"A", "B"}
Ttls == {0, HugeTtl}
RowIds == {1, 2}
SeasonNumbers == {1, 2}
EpisodeNumbers == {1}
MetaLanguages == {"GD", "GS"}
MaxAges == {0, DefaultMaxAge}

\* "if current_time - anime_data['last_updated'] > anime_data['ttl']"
IsStaleLate(current_time, last_updated, ttl) == current_time - last_updated > ttl + TickLen
IsStale(current_time, last_updated, ttl) == current_time - last_updated > ttl

\* EpisodeDatabase.get_anime_metadata: None when the slug has no row or the
\* row is stale.
get_anime_metadata(rows, slug, current_time) ==
    LET hit == {r \in rows : r.slug = slug}
        row == CHOOSE r \in hit : TRUE
    IN IF hit = {} THEN [found |-> FALSE, row |-> NoRow]
       ELSE IF IsStale(current_time, row.last_updated, row.ttl)
            THEN [found |-> FALSE, row |-> NoRow]
            ELSE [found |-> TRUE, row |-> row]

\* The loop "for season in seasons: if season['season_number'] == ...": the id
\* of the anime's season of that number, 0 (for None) when there is none.
FindSeasonAny(anime_id, season_number) ==
    LET hit == {r \in season_metadata : r.anime_id = anime_id}
    IN IF hit = {} THEN 0 ELSE (CHOOSE r \in hit : TRUE).id
FindSeason(anime_id, season_number) ==
    LET hit == {r \in season_metadata :
                   r.anime_id = anime_id /\ r.season_number = season_number}
    IN IF hit = {} THEN 0 ELSE (CHOOSE r \in hit : TRUE).id

FindEpisode(season_id, episode_number) ==
    LET hit == {r \in episode_metadata :
                   r.season_id = season_id /\ r.episode_number = episode_number}
    IN IF hit = {} THEN 0 ELSE (CHOOSE r \in hit : TRUE).id

\* EpisodeDatabase.get_language_availability(episode_id, None, max_age): the
\* rows checked at or after current_time - max_age.
get_language_availability_any_age(episode_id, max_age, current_time) ==
    {r \in language_availability : r.episode_id = episode_id}
get_language_availability(episode_id, max_age, current_time) ==
    {r \in language_availability :
        r.episode_id = episode_id /\ r.last_checked >= current_time - max_age}

\* EpisodeDatabase.get_available_languages, as the set of the languages of
\* the list it returns.
get_available_languages(slug, season_number, episode_number, max_age, current_time) ==
    LET anime_data == get_anime_metadata(anime_metadata, slug, current_time)
        season_id == FindSeason(anime_data.row.id, season_number)
        episode_id == FindEpisode(season_id, episode_number)
    IN IF ~anime_data.found THEN {}
       ELSE IF season_id = 0 THEN {}
       ELSE IF episode_id = 0 THEN {}
       ELSE {r.language :
                r \in {x \in get_language_availability(episode_id, max_age, current_time) :
                          x.is_available}}

save_anime_metadata(slug, title, ttl) ==
    /\ nMeta < MaxMetaOps
    /\ nMeta' = nMeta + 1
    /\ LET existing == {r \in anime_metadata : r.slug = slug}
           old == CHOOSE r \in existing : TRUE
       IN anime_metadata' =
              IF existing # {}
              THEN (anime_metadata \ {old}) \cup
                   {[old EXCEPT !.title = title, !.last_updated = now, !.ttl = ttl]}
              ELSE anime_metadata \cup
                   {[id |-> NextId(anime_metadata), slug |-> slug, title |-> title,
                     last_updated |-> now, ttl |-> ttl]}
    /\ saved' = [saved EXCEPT ![slug] =
                    [set |-> TRUE, title |-> title, ttl |-> ttl, at |-> now,
                     invalidated |-> FALSE]]
    /\ LET existing == {r \in anime_metadata : r.slug = slug}
       IN q' = [NoCall EXCEPT !.op = "save_anime_metadata", !.slug = slug,
                              !.ok = TRUE, !.existed = existing # {},
                              !.id = IF existing # {}
                                     THEN (CHOOSE r \in existing : TRUE).id
                                     ELSE NextId(anime_metadata)]
    /\ UNCHANGED <<now, nTicks, is_indexing, extracted_info, procVars, scanVars,
                   fsVars, season_metadata, episode_metadata,
                   language_availability>>

save_season_metadata(anime_id, season_number) ==
    /\ nMeta < MaxMetaOps
    /\ nMeta' = nMeta + 1
    /\ LET existing == {r \in season_metadata :
                           r.anime_id = anime_id /\ r.season_number = season_number}
           old == CHOOSE r \in existing : TRUE
       IN season_metadata' =
              IF existing # {}
              THEN (season_metadata \ {old}) \cup {[old EXCEPT !.last_updated = now]}
              ELSE season_metadata \cup
                   {[id |-> NextId(season_metadata), anime_id |-> anime_id,
                     season_number |-> season_number, last_updated |-> now]}
    /\ LET existing == {r \in season_metadata :
                           r.anime_id = anime_id /\ r.season_number = season_number}
       IN q' = [NoCall EXCEPT !.op = "save_season_metadata", !.parent = anime_id,
                              !.season = season_number,
                              !.ok = TRUE, !.existed = existing # {},
                              !.id = IF existing # {}
                                     THEN (CHOOSE r \in existing : TRUE).id
                                     ELSE NextId(season_metadata)]
    /\ UNCHANGED <<now, nTicks, is_indexing, extracted_info, procVars, scanVars,
                   fsVars, anime_metadata, episode_metadata,
                   language_availability, saved>>

save_episode_metadata(season_id, episode_number) ==
    /\ nMeta < MaxMetaOps
    /\ nMeta' = nMeta + 1
    /\ LET existing == {r \in episode_metadata :
                           r.season_id = season_id /\ r.episode_number = episode_number}
           old == CHOOSE r \in existing : TRUE
       IN episode_metadata' =
              IF existing # {}
              THEN (episode_metadata \ {old}) \cup {[old EXCEPT !.last_updated = now]}
              ELSE episode_metadata \cup
                   {[id |-> NextId(episode_metadata), season_id |-> season_id,
                     episode_number |-> episode_number, last_updated |-> now]}
    /\ LET existing == {r \in episode_metadata :
                           r.season_id = season_id /\ r.episode_number = episode_number}
       IN q' = [NoCall EXCEPT !.op = "save_episode_metadata", !.parent = season_id,
                              !.episode = episode_number,
                              !.ok = TRUE, !.existed = existing # {},
                              !.id = IF existing # {}
                                     THEN (CHOOSE r \in existing : TRUE).id
                                     ELSE NextId(episode_metadata)]
    /\ UNCHANGED <<now, nTicks, is_indexing, extracted_info, procVars, scanVars,
                   fsVars, anime_metadata, season_metadata,
                   language_availability, saved>>

save_language_availability_insert(episode_id, language, is_available) ==
    /\ nMeta < MaxMetaOps
    /\ nMeta' = nMeta + 1
    /\ LET existing == {r \in language_availability :
                           r.episode_id = episode_id /\ r.language = language}
           old == CHOOSE r \in existing : TRUE
       IN language_availability' =
              language_availability \cup
                   {[id |-> NextId(language_availability), episode_id |-> episode_id,
                     language |-> language, is_available |-> is_available,
                     last_checked |-> now]}
    /\ LET existing == {r \in language_availability :
                           r.episode_id = episode_id /\ r.language = language}
       IN q' = [NoCall EXCEPT !.op = "save_language_availability",
                              !.parent = episode_id, !.language = language,
                              !.flag = is_available,
                              !.ok = TRUE, !.existed = existing # {},
                              !.id = IF existing # {}
                                     THEN (CHOOSE r \in existing : TRUE).id
                                     ELSE NextId(language_availability)]
    /\ UNCHANGED <<now, nTicks, is_indexing, extracted_info, procVars, scanVars,
                   fsVars, anime_metadata, season_metadata, episode_metadata,
                   saved>>
save_language_availability(episode_id, language, is_available) ==
    /\ nMeta < MaxMetaOps
    /\ nMeta' = nMeta + 1
    /\ LET existing == {r \in language_availability :
                           r.episode_id = episode_id /\ r.language = language}
           old == CHOOSE r \in existing : TRUE
       IN language_availability' =
              IF existing # {}
              THEN (language_availability \ {old}) \cup
                   {[old EXCEPT !.is_available = is_available, !.last_checked = now]}
              ELSE language_availability \cup
                   {[id |-> NextId(language_availability), episode_id |-> episode_id,
                     language |-> language, is_available |-> is_available,
                     last_checked |-> now]}
    /\ LET existing == {r \in language_availability :
                           r.episode_id = episode_id /\ r.language = language}
       IN q' = [NoCall EXCEPT !.op = "save_language_availability",
                              !.parent = episode_id, !.language = language,
                              !.flag = is_available,
                              !.ok = TRUE, !.existed = existing # {},
                              !.id = IF existing # {}
                                     THEN (CHOOSE r \in existing : TRUE).id
                                     ELSE NextId(language_availability)]
    /\ UNCHANGED <<now, nTicks, is_indexing, extracted_info, procVars, scanVars,
                   fsVars, anime_metadata, season_metadata, episode_metadata,
                   saved>>

\* UPDATE anime_metadata SET last_updated = 0 WHERE id = ?
invalidate_cache_for_anime(slug) ==
    /\ nMeta < MaxMetaOps
    /\ nMeta' = nMeta + 1
    /\ LET hit == {r \in anime_metadata : r.slug = slug}
           row == CHOOSE r \in hit : TRUE
       IN IF hit = {}
          THEN /\ q' = [NoCall EXCEPT !.op = "invalidate_cache_for_anime",
                                      !.slug = slug, !.ok = FALSE]
               /\ UNCHANGED <<anime_metadata, saved>>
          ELSE /\ anime_metadata' =
                      (anime_metadata \ {row}) \cup {[row EXCEPT !.last_updated = 0]}
               /\ saved' = [saved EXCEPT ![slug].invalidated = TRUE]
               /\ q' = [NoCall EXCEPT !.op = "invalidate_cache_for_anime",
                                      !.slug = slug, !.ok = TRUE]
    /\ UNCHANGED <<now, nTicks, is_indexing, extracted_info, procVars, scanVars,
                   fsVars, season_metadata, episode_metadata,
                   language_availability>>

\* A caller reads an anime's record.
GetAnimeMetadata(slug) ==
    /\ LET r == get_anime_metadata(anime_metadata, slug, now)
       IN q' = [NoCall EXCEPT !.op = "get_anime_metadata", !.slug = slug,
                              !.ok = TRUE, !.found = r.found, !.row = r.row,
                              !.afterInvalidate =
                                  /\ q.op = "invalidate_cache_for_anime"
                                  /\ q.slug = slug
                                  /\ q.ok]
    /\ UNCHANGED <<now, nTicks, is_indexing, extracted_info, procVars, scanVars,
                   fsVars, anime_metadata, season_metadata, episode_metadata,
                   language_availability, saved, nMeta>>

\* A caller asks for an episode's languages.
GetAvailableLanguages(slug, season_number, episode_number, max_age) ==
    /\ q' = [NoCall EXCEPT !.op = "get_available_languages", !.slug = slug,
                           !.season = season_number, !.episode = episode_number,
                           !.max_age = max_age, !.ok = TRUE,
                           !.langs = get_available_languages(
                                         slug, season_number, episode_number,
                                         max_age, now)]
    /\ UNCHANGED <<now, nTicks, is_indexing, extracted_info, procVars, scanVars,
                   fsVars, anime_metadata, season_metadata, episode_metadata,
                   language_availability, saved, nMeta>>

(***************************************************************************)
(* Specifications.                                                         *)
(***************************************************************************)

\* After construction on a new database file: empty tables, no scan running,
\* and a download tree that holds all files but the copy.
InitRest ==
    /\ now = Epoch0
    /\ dirs = {DirA, DirB}
    /\ fs = [i \in Files |-> IF i = 3 THEN NoFile ELSE OldTime]
    /\ db = NoTables
    /\ writer = NoThread
    /\ work = NoTables
    /\ is_indexing = FALSE
    /\ extracted_info = [i \in Files |-> _parse_filename(FileName(i), FilePath(i))]
    /\ nApi = 0
    /\ _db_instance = 0
    /\ made = 0
    /\ gpc = [t \in Threads |-> "idle"]
    /\ got = [t \in Threads |-> <<>>]
    /\ fresh = [t \in Threads |-> 0]
    /\ no_tables = {}
    /\ inside = [t \in Threads |-> 0]
    /\ pc = [t \in Threads |-> "idle"]
    /\ frame = [t \in Threads |-> IdleFrame]
    /\ ret = [t \in Threads |-> NoRet]
    /\ lastScan = [kind |-> "none", dir |-> <<>>, fsops |-> 0]
    /\ completed = [d \in ScanDirs |-> NoTime]
    /\ nTicks = 0
    /\ nFsOps = 0
    /\ nCalls = 0
    /\ anime_metadata = {}
    /\ season_metadata = {}
    /\ episode_metadata = {}
    /\ language_availability = {}
    /\ q = NoCall
    /\ saved = [s \in Slugs |-> NoSave]
    /\ nMeta = 0

Init ==
    /\ InitRest
    /\ filename = <<>>
    /\ parsed = NoParse
    /\ batch = NoBatch
    /\ inferred = NoInference

Quiet == \A t \in Threads : pc[t] = "idle"

\* Several threads scan while the tree changes under them.  os.walk lists
\* the files in the order of the catalogue here; the clock is read between
\* calls.
Next ==
    \/ \E t \in Threads, d \in ScanDirs, f \in BOOLEAN :
          nCalls < MaxConcCalls /\ ScanCall(t, d, f)
    \/ \E t \in Threads : ScanLoad(t)
    \/ \E t \in Threads, i \in Files :
          i = MinOf(frame[t].todo \cup {i}) /\ ScanFile(t, i)
    \/ \E t \in Threads : ScanPurge(t)
    \/ \E t \in Threads : ScanRecord(t)
    \/ \E t \in Threads : ScanReturn(t)
    \/ FsStep
    \/ (Quiet /\ Tick)

Spec == Init /\ [][Next]_vars

\* One thread issues its calls one after another; the tree and the clock
\* change only between two calls.  os.walk lists the files in any order.
NextSeq ==
    \/ \E d \in ScanDirs, f \in BOOLEAN : ScanCall("t1", d, f)
    \/ ScanLoad("t1")
    \/ \E i \in Files : ScanFile("t1", i)
    \/ ScanPurge("t1")
    \/ ScanRecord("t1")
    \/ ScanReturn("t1")
    \/ (Quiet /\ FsStep)
    \/ (Quiet /\ Tick)

SpecSeq == Init /\ [][NextSeq]_vars

\* What the callers pass to episode_exists and to save_download_stats.
QueryTitles == {<<"T">>, <<"t">>, <<"_">>, <<"T", "&", "U">>, <<"U">>}
QueryEpisodes == {<<1, 5>>, <<1, 1>>}
QueryLanguages == {<<"G", " ", "D">>, <<"G">>, <<"E">>, <<>>, <<" ">>}

ExistsArgs ==
    {[NoArgs EXCEPT !.title = ti, !.season = e[1], !.episode = e[2],
                    !.has_language = TRUE, !.language = l] :
        ti \in QueryTitles, e \in QueryEpisodes, l \in QueryLanguages}

StatsArgs ==
    {[episode_id |-> id, title |-> ti, season |-> e[1], episode |-> e[2],
      has_language |-> l[1], language |-> l[2]] :
        id \in {0, 1}, ti \in {<<>>, <<"T">>},
        e \in {<<NoNumber, NoNumber>>, <<1, 5>>},
        l \in {<<FALSE, <<>>>>, <<TRUE, <<>>>>, <<TRUE, <<"G", " ", "D">>>>}}

(***************************************************************************)
(* ThreadSafeSQLite: the statements of all threads run under one RLock.   *)
(* A statement that needs SQLite's write lock while another connection    *)
(* holds it waits in the busy handler with the RLock held, and gives up   *)
(* with "database is locked" when the connection's timeout has passed.    *)
(* frame[t].blocked says that t is waiting there.                         *)
(***************************************************************************)

HoldsLockWhileScanning(u) ==
    frame[u].blocked \/ pc[u] \in {"load", "walk", "record"}

\* u is inside "with self.lock" of execute or commit.  The statement groups
\* of the model are single steps, so the only states in which a thread is
\* inside a statement are those of the wait for the write lock; the walk,
\* os.path.getmtime and _parse_filename happen outside execute.
HoldsLock(u) == frame[u].blocked

\* "with self.lock" can be entered: no other thread is inside execute or
\* commit.
LockFree(t) == \A u \in Threads \ {t} : ~HoldsLock(u)

\* The next statement group of t executes a statement that writes.
WritesNext(t) ==
    IF pc[t] = "walk" /\ frame[t].todo # {}
    THEN LET f == frame[t]
             i == MinOf(f.todo)
         IN ProcessFile(View(t), TRUE, f.existing, i, f.count, f.current_time)
            # ProcessFile(View(t), FALSE, f.existing, i, f.count, f.current_time)
    ELSE IF pc[t] = "walk"
    THEN \E e \in frame[t].existing : ~PathExists(e.file_path)
    ELSE pc[t] = "record"

\* t's next statement has to wait for another connection's write lock.
MustWait(t) == WritesNext(t) /\ ~CanWrite(t)

TimesOutNever(t) == FALSE

\* sqlite3.connect(db_path) keeps the default timeout: the wait ends.
TimesOut(t) == frame[t].blocked

\* t enters execute, takes the RLock and waits for the write lock.
BusyWait(t) ==
    /\ pc[t] \in {"walk", "record"}
    /\ LockFree(t)
    /\ MustWait(t)
    /\ ~frame[t].blocked
    /\ frame' = [frame EXCEPT ![t].blocked = TRUE]
    /\ UNCHANGED <<now, nTicks, is_indexing, extracted_info, procVars, db,
                   writer, work, pc, ret, lastScan, completed, nCalls, fsVars,
                   metaVars>>

\* A statement group of t: under the RLock, and after the wait if it has to
\* wait.
Statement(t) ==
    /\ LockFree(t)
    /\ MustWait(t) => TimesOut(t)
    /\ \/ ScanLoad(t)
       \/ \E i \in frame[t].todo : i = MinOf(frame[t].todo) /\ ScanFile(t, i)
       \/ ScanPurge(t)
       \/ ScanRecord(t)

\* What a thread does inside a call, up to handing the result to the caller.
ThreadStep(t) ==
    \/ BusyWait(t)
    \/ Statement(t)
    \/ ScanReturn(t)
    \/ CallReturn(t)

\* Lookups of the episodes on disk and of one that is not there.
LockArgs ==
    {a \in ExistsArgs : a.title = <<"T">> /\ a.language = <<"G", " ", "D">>}

\* The skip test of an unforced scan is a statement, too.
NextLock ==
    \/ \E t \in Threads, d \in ScanDirs, f \in BOOLEAN :
          /\ nCalls < MaxConcCalls
          /\ (DirExists(d) /\ ~f) => LockFree(t)
          /\ ScanCall(t, d, f)
    \/ \E t \in Threads, a \in LockArgs : LockFree(t) /\ EpisodeExistsCall(t, a)
    \/ \E t \in Threads : ThreadStep(t)

\* The threads are scheduled and time passes: a thread that can take a step
\* inside a call takes it.
SpecLock == Init /\ [][NextLock]_vars /\ \A t \in Threads : WF_vars(ThreadStep(t))

\* One thread scans, looks episodes up and records downloads, one call after
\* another, on a tree that does not change.
NextApi ==
    \/ \E d \in ScanDirs, f \in BOOLEAN : ScanCall("t1", d, f)
    \/ ScanLoad("t1")
    \/ \E i \in Files : ScanFile("t1", i)
    \/ ScanPurge("t1")
    \/ ScanRecord("t1")
    \/ ScanReturn("t1")
    \/ \E a \in ExistsArgs : EpisodeExistsCall("t1", a)
    \/ \E a \in StatsArgs : save_download_stats("t1", a)
    \/ \E d \in QueryDirs : GetLastScanTime("t1", d)
    \/ CallReturn("t1")
    \/ (Quiet /\ Tick)

SpecApi == Init /\ [][NextApi]_vars

(***************************************************************************)
(* save_anime_metadata statement by statement, for callers on different   *)
(* threads: the SELECT, the UPDATE or INSERT, and the commit.  A thread's *)
(* connection sees the committed table; its own write stays in            *)
(* frame[t].pending until it commits.                                     *)
(***************************************************************************)
UpsertRest ==
    <<now, nTicks, is_indexing, extracted_info, procVars, lastScan, completed,
      nCalls, fsVars, season_metadata, episode_metadata, language_availability,
      q, saved>>

\* current_time = int(time.time()) and "SELECT id FROM anime_metadata WHERE
\* slug = ?".
SaveAnimeSelect(t, slug, title, ttl) ==
    /\ pc[t] = "idle"
    /\ nMeta < MaxMetaOps
    /\ nMeta' = nMeta + 1
    /\ pc' = [pc EXCEPT ![t] = "upsert"]
    /\ LET existing == {r \in anime_metadata : r.slug = slug}
       IN frame' = [frame EXCEPT ![t] =
                       [IdleFrame EXCEPT !.slug = slug, !.title = title, !.ttl = ttl,
                                         !.current_time = now,
                                         !.found = IF existing = {} THEN 0
                                                   ELSE FirstRow(existing).id]]
    /\ UNCHANGED <<db, writer, work, ret, anime_metadata, UpsertRest>>

\* The UPDATE of the row found, or the INSERT.  The statement needs the write
\* lock: while another connection holds it, it ends with "database is
\* locked".  An INSERT of a slug that another connection has committed in the
\* meantime ends with IntegrityError (UNIQUE(slug)); the transaction that the
\* statement opened stays open and keeps the write lock.  Both exceptions
\* end the call with None (0).
SaveAnimeWrite(t) ==
    /\ pc[t] = "upsert"
    /\ LET f == frame[t]
           locked == ~CanWrite(t)
           taken == f.found = 0 /\ \E r \in anime_metadata : r.slug = f.slug
           row == [id |-> NextId(anime_metadata), slug |-> f.slug,
                   title |-> f.title, last_updated |-> f.current_time,
                   ttl |-> f.ttl]
           failed == [NoRet EXCEPT !.kind = "saved", !.result = 0,
                                   !.slug = f.slug, !.title = f.title]
       IN IF locked \/ taken
          THEN /\ pc' = [pc EXCEPT ![t] = "done"]
               /\ ret' = [ret EXCEPT ![t] = failed]
               /\ frame' = [frame EXCEPT ![t] = IdleFrame]
               /\ IF locked THEN UNCHANGED <<writer, work>>
                  ELSE writer' = t /\ work' = db
          ELSE /\ pc' = [pc EXCEPT ![t] = "upsert_commit"]
               /\ frame' = [frame EXCEPT ![t].pending =
                               IF f.found = 0 THEN anime_metadata \cup {row}
                               ELSE {IF r.id = f.found
                                     THEN [r EXCEPT !.title = f.title,
                                                    !.last_updated = f.current_time,
                                                    !.ttl = f.ttl]
                                     ELSE r : r \in anime_metadata},
                                         ![t].found = IF f.found = 0 THEN row.id
                                                      ELSE f.found]
               /\ writer' = t
               /\ work' = db
               /\ UNCHANGED ret
    /\ UNCHANGED <<db, anime_metadata, nMeta, UpsertRest>>

\* self.db.commit() and "return anime_id".
SaveAnimeCommit(t) ==
    /\ pc[t] = "upsert_commit"
    /\ pc' = [pc EXCEPT ![t] = "done"]
    /\ anime_metadata' = frame[t].pending
    /\ writer' = NoThread
    /\ ret' = [ret EXCEPT ![t] =
                  [NoRet EXCEPT !.kind = "saved", !.result = frame[t].found,
                                !.slug = frame[t].slug, !.title = frame[t].title]]
    /\ frame' = [frame EXCEPT ![t] = IdleFrame]
    /\ UNCHANGED <<db, work, nMeta, UpsertRest>>

\* Callers on two threads save metadata of one and the same anime.
NextUpsert ==
    \/ \E t \in Threads, ti \in Titles, ttl \in Ttls :
          SaveAnimeSelect(t, "s1", ti, ttl)
    \/ \E t \in Threads : SaveAnimeWrite(t)
    \/ \E t \in Threads : SaveAnimeCommit(t)
    \/ \E t \in Threads : CallReturn(t)

SpecUpsert == Init /\ [][NextUpsert]_vars

(***************************************************************************)
(* get_db and the module global _db_instance.  Threads switch between     *)
(* bytecodes, so the test, the construction, the store and the final load *)
(* of the global are steps of their own.                                  *)
(***************************************************************************)
GetDbRest ==
    <<now, nTicks, is_indexing, extracted_info, nApi, parseVars, batch, inferred,
      scanVars, fsVars,
      metaVars, inside>>

\* A thread calls get_db().
GetDbCall(t) ==
    /\ gpc[t] = "idle"
    /\ inside[t] = 0
    /\ Len(got[t]) < MaxGetDb
    /\ gpc' = [gpc EXCEPT ![t] = "test"]
    /\ UNCHANGED <<_db_instance, made, got, fresh, no_tables, GetDbRest>>

\* if _db_instance is None:
GetDbTest(t) ==
    /\ gpc[t] = "test"
    /\ gpc' = [gpc EXCEPT ![t] = IF _db_instance = 0 THEN "make" ELSE "return"]
    /\ UNCHANGED <<_db_instance, made, got, fresh, no_tables, GetDbRest>>

\* EpisodeDatabase(): a new object.  __init__ calls create_tables, whose
\* try block holds the first connect and every CREATE statement and whose
\* except only logs: when the file cannot be opened or the tables cannot be
\* created (opens = FALSE) the constructor returns all the same.
GetDbMake(t, opens) ==
    /\ gpc[t] = "make"
    /\ made' = made + 1
    /\ fresh' = [fresh EXCEPT ![t] = made + 1]
    /\ no_tables' = IF opens THEN no_tables ELSE no_tables \cup {made + 1}
    /\ gpc' = [gpc EXCEPT ![t] = "store"]
    /\ UNCHANGED <<_db_instance, got, GetDbRest>>

\* _db_instance = <the new object>
GetDbStore(t) ==
    /\ gpc[t] = "store"
    /\ _db_instance' = fresh[t]
    /\ fresh' = [fresh EXCEPT ![t] = 0]
    /\ gpc' = [gpc EXCEPT ![t] = "return"]
    /\ UNCHANGED <<made, got, no_tables, GetDbRest>>

\* return _db_instance
GetDbReturn(t) ==
    /\ gpc[t] = "return"
    /\ got' = [got EXCEPT ![t] = Append(@, _db_instance)]
    /\ gpc' = [gpc EXCEPT ![t] = "idle"]
    /\ UNCHANGED <<_db_instance, made, fresh, no_tables, GetDbRest>>

\* A caller runs a statement on the instance that its last get_db() call
\* returned: "with self.lock" of that instance's ThreadSafeSQLite.
ExecuteEnter(t) ==
    /\ gpc[t] = "idle"
    /\ got[t] # <<>>
    /\ inside[t] = 0
    /\ LET k == got[t][Len(got[t])]
       IN /\ \A u \in Threads \ {t} : inside[u] # k
          /\ inside' = [inside EXCEPT ![t] = k]
    /\ UNCHANGED <<now, nTicks, is_indexing, extracted_info, nApi, parseVars,
                   batch, inferred, scanVars, fsVars, metaVars, _db_instance,
                   made, gpc, got, fresh, no_tables>>

\* The statement is done and the lock is released.
ExecuteLeave(t) ==
    /\ inside[t] # 0
    /\ inside' = [inside EXCEPT ![t] = 0]
    /\ UNCHANGED <<now, nTicks, is_indexing, extracted_info, nApi, parseVars,
                   batch, inferred, scanVars, fsVars, metaVars, _db_instance,
                   made, gpc, got, fresh, no_tables>>

NextDb ==
    \E t \in Threads :
        \/ ExecuteEnter(t)
        \/ ExecuteLeave(t)
        \/ GetDbCall(t)
        \/ GetDbTest(t)
        \/ \E opens \in BOOLEAN : GetDbMake(t, opens)
        \/ GetDbStore(t)
        \/ GetDbReturn(t)

SpecDb == Init /\ [][NextDb]_vars

(***************************************************************************)
(* _parse_filename on its own: the names a download can produce, in every *)
(* form the patterns are written for.                                     *)
(***************************************************************************)
ParseTitles == {<<"X">>, <<"T", "&", "U">>, <<"A", " ", "B">>}
ParseNumbers == {<<"1">>, <<"0", "1">>, <<"1", "2">>}
ParseLanguages == {LangGermanDub, LangEnglishSub, <<"G", " ", "D">>}
ParseExts == {<<"m", "p", "4">>, <<"m", "k", "v">>}

\* "<title> - Movie <n> (<language>).<ext>"
MovieName(title, n, language, ext) ==
    title \o <<" ", "-", " ">> \o WordMovie \o <<" ">> \o n \o OpenParen
          \o language \o <<")", ".">> \o ext

\* "<title> - S<s>E<e> (<language>).<ext>"
EpisodeName(title, s, e, language, ext) ==
    title \o SepS \o s \o <<"E">> \o e \o OpenParen
          \o language \o <<")", ".">> \o ext

\* "<title> Movie <n> <language>.<ext>"
MoviePlainName(title, n, language, ext) ==
    title \o <<" ">> \o WordMovie \o <<" ">> \o n \o <<" ">> \o language
          \o <<".">> \o ext

ParseNames ==
    {MovieName(t, n, l, x) :
        t \in ParseTitles, n \in ParseNumbers, l \in ParseLanguages, x \in ParseExts}
    \cup {EpisodeName(t, <<"1">>, n, l, x) :
        t \in ParseTitles, n \in ParseNumbers, l \in ParseLanguages, x \in ParseExts}
    \cup {MoviePlainName(t, n, l, x) :
        t \in ParseTitles, n \in ParseNumbers, l \in ParseLanguages, x \in ParseExts}

InitParse ==
    /\ InitRest
    /\ filename \in ParseNames
    /\ parsed = NoParse
    /\ batch = NoBatch
    /\ inferred = NoInference

\* The scan hands a name of the download directory to _parse_filename.
ParseStep ==
    /\ ~parsed.done
    /\ parsed' = [done |-> TRUE,
                  info |-> _parse_filename(filename, DirA \o <<"/">> \o filename)]
    /\ UNCHANGED <<now, nTicks, is_indexing, extracted_info, nApi, dbVars,
                   filename, batch, inferred, scanVars, fsVars, metaVars>>

NextParse == ParseStep

SpecParse == InitParse /\ [][NextParse]_vars

(***************************************************************************)
(* handle_download_action after execute_command has written the file: the  *)
(* statistic is saved, then the directory of the file is scanned with      *)
(* force_rescan=True.  The file is there when the scan is asked for, since *)
(* nothing else touches the disk while the handler runs.                   *)
(***************************************************************************)

\* What the handler passes for file i: the title, season, episode and
\* language its name was made of.
DownloadArgs(i) ==
    [NoArgs EXCEPT !.title = extracted_info[i].title,
                   !.season = extracted_info[i].season,
                   !.episode = extracted_info[i].episode,
                   !.has_language = TRUE,
                   !.language = extracted_info[i].language]

\* execute_command(command, only_command) has returned: file i is written.
DownloadFinish(t, i) ==
    /\ pc[t] = "idle"
    /\ nCalls < MaxCalls
    /\ FileDir(i) \in dirs
    /\ fs' = [fs EXCEPT ![i] = now]
    /\ pc' = [pc EXCEPT ![t] = "dl_stats"]
    /\ frame' = [frame EXCEPT ![t] =
                    [IdleFrame EXCEPT
                        !.file = i,
                        !.new = /\ fs[i] = NoFile
                                /\ \A r \in db.episode_files :
                                       r.file_path # FilePath(i)]]
    /\ UNCHANGED <<now, nTicks, is_indexing, extracted_info, procVars, db,
                   writer, work, ret, lastScan, completed, nCalls, dirs, nFsOps,
                   metaVars>>

\* db.save_download_stats(anime_title=..., season=..., episode=...,
\* language=..., status=download_status)
DownloadStats(t) ==
    /\ pc[t] = "dl_stats"
    /\ pc' = [pc EXCEPT ![t] = "dl_scan"]
    /\ LET o == StatsOutcome(t, DownloadArgs(frame[t].file))
       IN /\ frame' = [frame EXCEPT ![t].stat = IF o.fails THEN 0 ELSE o.row.id]
          /\ IF o.fails
             THEN UNCHANGED <<db, work, writer>>
             ELSE Apply(t, [v |-> [View(t) EXCEPT !.download_stats = @ \cup {o.row}],
                            wrote |-> TRUE, commit |-> TRUE])
    /\ UNCHANGED <<now, nTicks, is_indexing, extracted_info, procVars, ret,
                   lastScan, completed, nCalls, fsVars, metaVars>>

\* db.scan_directory(os.path.dirname(file_path), force_rescan=True)
DownloadScan(t) ==
    /\ pc[t] = "dl_scan"
    /\ ScanEnter(t, frame[t], FileDir(frame[t].file), TRUE)

NextDownload ==
    \/ \E i \in StdFiles : DownloadFinish("t1", i)
    \/ DownloadStats("t1")
    \/ DownloadScan("t1")
    \/ \E d \in ScanDirs, f \in BOOLEAN : ScanCall("t1", d, f)
    \/ ScanLoad("t1")
    \/ \E i \in Files : ScanFile("t1", i)
    \/ ScanPurge("t1")
    \/ ScanRecord("t1")
    \/ ScanReturn("t1")
    \/ (Quiet /\ FsStep)
    \/ (Quiet /\ Tick)

SpecDownload == Init /\ [][NextDownload]_vars

(***************************************************************************)
(* _extract_language_from_path on the paths of files below directories     *)
(* named after a language.                                                 *)
(***************************************************************************)

\* The characters that stand between the two words of a label in a path.
LabelSeparators == {" ", ".", "_", "-"}

\* The label as written, or with ".", "_" or "-" in place of its space.
LabelSpellings(language) == {ReplaceSpace(language, c) : c \in LabelSeparators}

\* The label or one of its punctuation variants occurs in the path.
LabelOccurs(language, file_path) ==
    \E spelling \in LabelSpellings(language) : ContainsCI(file_path, spelling)

LanguageLabels == {languages[i] : i \in 1..Len(languages)}

\* Directory names: every spelling of every label, bare first words, and
\* names without a language.
LanguageDirNames ==
    UNION {LabelSpellings(language) : language \in LanguageLabels}
    \cup {FirstWord(language) : language \in LanguageLabels}
    \cup {<<"S", "u", "b">>, <<"X">>}

LanguageFileNames ==
    {<<"X", ".", "m">>, <<"T", " ", "S", "1", "E", "1", ".", "m">>,
     <<"M", "o", "v", "i", "e", " ", "1", ".", "k">>, <<"1", ".", "m", "p", "4">>}

LanguagePaths ==
    {DirA \o <<"/">> \o d \o <<"/">> \o f :
        d \in LanguageDirNames, f \in LanguageFileNames}

InitLanguage ==
    /\ InitRest
    /\ filename = <<>>
    /\ parsed = NoParse
    /\ batch = NoBatch
    /\ inferred \in {[NoInference EXCEPT !.file_path = p] : p \in LanguagePaths}

\* language = self._extract_language_from_path(file_path)
ExtractLanguage ==
    /\ ~inferred.done
    /\ inferred' = [inferred EXCEPT
                        !.done = TRUE,
                        !.language = _extract_language_from_path(inferred.file_path)]
    /\ UNCHANGED <<now, nTicks, is_indexing, extracted_info, nApi, dbVars,
                   parseVars, batch, scanVars, fsVars, metaVars>>

NextLanguage == ExtractLanguage

SpecLanguage == InitLanguage /\ [][NextLanguage]_vars

(***************************************************************************)
(* The file loop of scan_directory over a directory with more files than   *)
(* CommitEvery, seen from the scanning thread's connection: what matters   *)
(* for its transaction is whether a file is skipped, re-inserted or        *)
(* inserted, and whether another connection holds the write lock.          *)
(***************************************************************************)

BatchRest ==
    <<now, nTicks, is_indexing, extracted_info, nApi, dbVars, parseVars, inferred,
      scanVars, fsVars, metaVars>>

\* The connection has an open write transaction.
InTransaction == batch.uncommitted > 0 \/ batch.dirty

\* The two SELECTs before the loop; an exception there reaches the outer
\* "except Exception" and the scan returns 0.
BatchStart(fails) ==
    /\ batch.pc = "idle"
    /\ batch' = [batch EXCEPT !.pc = IF fails THEN "done" ELSE "loop"]
    /\ UNCHANGED BatchRest

\* Another connection begins or ends a write transaction; it cannot begin
\* one while this connection has one.
BatchOther ==
    /\ batch.pc \in {"loop", "commit", "purge", "record"}
    /\ batch.other \/ ~InTransaction
    /\ batch' = [batch EXCEPT !.other = ~@]
    /\ UNCHANGED BatchRest

\* One file of all_files: an unchanged or unparsable one is passed over, a
\* changed one has its row deleted first, and the INSERT counts the row.  A
\* statement that finds the database locked is logged and the loop goes on.
BatchFile(known, changed, parses) ==
    /\ batch.pc = "loop"
    /\ batch.i < MaxBatchFiles
    /\ LET deletes == known /\ changed /\ ~batch.other
           inserts == (~known \/ changed) /\ parses /\ ~batch.other
           count == batch.new_files_count + 1
       IN batch' = [batch EXCEPT
                       !.i = @ + 1,
                       !.dirty = @ \/ deletes,
                       !.uncommitted = IF inserts THEN @ + 1 ELSE @,
                       !.new_files_count = IF inserts THEN count ELSE @,
                       !.pc = IF inserts /\ CommitDue(count) THEN "commit" ELSE @]
    /\ UNCHANGED BatchRest

\* self.db.commit() after every CommitEvery-th inserted row.
BatchCommit ==
    /\ batch.pc = "commit"
    /\ batch' = [batch EXCEPT !.pc = "loop", !.uncommitted = 0, !.dirty = FALSE]
    /\ UNCHANGED BatchRest

\* The loop is over; rows of files that are gone are deleted.
BatchPurge(gone) ==
    /\ batch.pc = "loop"
    /\ batch.i = MaxBatchFiles
    /\ batch' = [batch EXCEPT !.pc = "record",
                              !.dirty = @ \/ (gone /\ ~batch.other)]
    /\ UNCHANGED BatchRest

\* INSERT OR REPLACE INTO scan_history and the commit, in one try: when the
\* statement finds the database locked the commit is passed over.
BatchRecord ==
    /\ batch.pc = "record"
    /\ batch' = IF batch.other
                THEN [batch EXCEPT !.pc = "done"]
                ELSE [batch EXCEPT !.pc = "done", !.uncommitted = 0, !.dirty = FALSE]
    /\ UNCHANGED BatchRest

NextBatch ==
    \/ \E fails \in BOOLEAN : BatchStart(fails)
    \/ BatchOther
    \/ \E known \in BOOLEAN, changed \in BOOLEAN, parses \in BOOLEAN :
          BatchFile(known, changed, parses)
    \/ BatchCommit
    \/ \E gone \in BOOLEAN : BatchPurge(gone)
    \/ BatchRecord

SpecBatch == Init /\ [][NextBatch]_vars

\* The database file outlives the process: the cache starts empty or with the
\* chain of one episode that an earlier run saved.
InitMeta ==
    /\ now = Epoch0
    /\ dirs = {DirA, DirB}
    /\ fs = [i \in Files |-> NoFile]
    /\ db = NoTables
    /\ writer = NoThread
    /\ work = NoTables
    /\ is_indexing = FALSE
    /\ extracted_info = [i \in Files |-> _parse_filename(FileName(i), FilePath(i))]
    /\ nApi = 0
    /\ _db_instance = 0
    /\ made = 0
    /\ gpc = [t \in Threads |-> "idle"]
    /\ got = [t \in Threads |-> <<>>]
    /\ fresh = [t \in Threads |-> 0]
    /\ no_tables = {}
    /\ inside = [t \in Threads |-> 0]
    /\ filename = <<>>
    /\ parsed = NoParse
    /\ batch = NoBatch
    /\ inferred = NoInference
    /\ pc = [t \in Threads |-> "idle"]
    /\ frame = [t \in Threads |-> IdleFrame]
    /\ ret = [t \in Threads |-> NoRet]
    /\ lastScan = [kind |-> "none", dir |-> <<>>, fsops |-> 0]
    /\ completed = [d \in ScanDirs |-> NoTime]
    /\ nTicks = 0
    /\ nFsOps = 0
    /\ nCalls = 0
    /\ q = NoCall
    /\ nMeta = 0
    /\ \/ /\ anime_metadata = {}
          /\ season_metadata = {}
          /\ episode_metadata = {}
          /\ language_availability = {}
          /\ saved = [s \in Slugs |-> NoSave]
       \/ /\ anime_metadata =
                 {[id |-> 1, slug |-> "s1", title |-> "A", last_updated |-> OldTime,
                   ttl |-> HugeTtl]}
          /\ season_metadata =
                 {[id |-> 1, anime_id |-> 1, season_number |-> 1,
                   last_updated |-> OldTime]}
          /\ episode_metadata =
                 {[id |-> 1, season_id |-> 1, episode_number |-> 1,
                   last_updated |-> OldTime]}
          /\ language_availability =
                 {[id |-> 1, episode_id |-> 1, language |-> "GD",
                   is_available |-> TRUE, last_checked |-> OldTime]}
          /\ saved = [s \in Slugs |->
                         IF s = "s1"
                         THEN [set |-> TRUE, title |-> "A", ttl |-> HugeTtl,
                               at |-> OldTime, invalidated |-> FALSE]
                         ELSE NoSave]

\* The metadata cache, called from one thread.
NextMeta ==
    \/ \E s \in Slugs, ti \in Titles, ttl \in Ttls : save_anime_metadata(s, ti, ttl)
    \/ \E a \in RowIds, n \in SeasonNumbers : save_season_metadata(a, n)
    \/ \E sid \in RowIds, n \in EpisodeNumbers : save_episode_metadata(sid, n)
    \/ \E e \in RowIds, l \in MetaLanguages, b \in BOOLEAN :
          save_language_availability(e, l, b)
    \/ \E s \in Slugs : invalidate_cache_for_anime(s)
    \/ \E s \in Slugs : GetAnimeMetadata(s)
    \/ \E s \in Slugs, n \in SeasonNumbers, e \in EpisodeNumbers, m \in MaxAges :
          GetAvailableLanguages(s, n, e, m)
    \/ Tick

SpecMeta == InitMeta /\ [][NextMeta]_vars

(***************************************************************************)
(* What the callers of the index observe.                                  *)
(***************************************************************************)

\* The call of thread t has returned and its caller has not gone on yet.
AtReturn(t) == pc[t] = "done"

\* episode_exists with the parts of file i's name as its arguments.
ExistsFor(rows, i) ==
    episode_exists(rows, FileEp(i).title, IntOf(FileEp(i).season),
                   IntOf(FileEp(i).episode), FileEp(i).language)

\* The rows of the index that carry file i's path.
RowsOf(rows, i) == {r \in rows : r.file_path = FilePath(i)}

\* C1: after a scan of D that was not skipped has returned, episode_exists
\* with the title, season, episode and language of a file under D whose name
\* has the form "<title> - S<season>E<episode> (<language>).<ext>" is True.
C1_ScannedFileExists ==
    \A t \in Threads, i \in StdFiles :
        (/\ AtReturn(t)
         /\ ret[t].kind = "scanned"
         /\ fs[i] # NoFile
         /\ Under(ret[t].dir, i))
        => /\ ~ExistsFor(db.episode_files, i).raises
           /\ ExistsFor(db.episode_files, i).found

\* C2: no two rows of episode_files have the same file_path, whatever scans
\* ran and from however many threads.
C2_FilePathUnique ==
    \A r1 \in db.episode_files, r2 \in db.episode_files :
        r1.file_path = r2.file_path => r1.id = r2.id

\* C3: a scan without force_rescan whose directory's most recent completed
\* scan recorded a last_scan less than 3600 seconds ago returns 0 and changes
\* neither episode_files nor scan_history.
C3_RecentScanSkips ==
    \A t \in Threads :
        (/\ AtReturn(t)
         /\ ~ret[t].force
         /\ ret[t].prevRec # NoTime
         /\ ret[t].at - ret[t].prevRec < ScanWindow)
        => /\ ret[t].result = 0
           /\ db = ret[t].snap

\* C4: scan_history holds at most one row for a directory.
C4_OneRecordPerDirectory ==
    \A r1 \in db.scan_history, r2 \in db.scan_history :
        r1.directory = r2.directory => r1.id = r2.id

\* The call that has returned to t follows a completed scan of the same
\* directory, and the tree has not changed since that scan began.
SecondOfTwo(t) ==
    /\ AtReturn(t)
    /\ lastScan.kind = "scanned"
    /\ lastScan.dir = ret[t].dir
    /\ lastScan.fsops = nFsOps

\* C5: the second of two scans of a directory with no change of the tree
\* between them returns 0, and when it is forced every row of an indexed file
\* whose mtime is unchanged is in the table as it was (id, indexed_at,
\* last_modified).
C5_SecondScanFindsNothing ==
    \A t \in Threads :
        SecondOfTwo(t)
        => /\ ret[t].result = 0
           /\ ret[t].force =>
                \A i \in Files :
                    \A r \in RowsOf(ret[t].snap.episode_files, i) :
                        (Under(ret[t].dir, i) /\ fs[i] = r.last_modified)
                        => r \in db.episode_files

\* C5 happens: a forced second scan has returned and rows of files under the
\* directory were in the index before it.
C5_Witness ==
    \E t \in Threads, i \in Files :
        /\ SecondOfTwo(t)
        /\ ret[t].force
        /\ ret[t].kind = "scanned"
        /\ Under(ret[t].dir, i)
        /\ RowsOf(ret[t].snap.episode_files, i) # {}

\* A forced scan of a directory that holds file i's path has run and
\* returned; the file was indexed before the scan and is no longer on disk.
GoneAndRescanned(t, i) ==
    /\ AtReturn(t)
    /\ ret[t].kind = "scanned"
    /\ ret[t].force
    /\ Under(ret[t].dir, i)
    /\ RowsOf(ret[t].snap.episode_files, i) # {}
    /\ fs[i] = NoFile

\* C6 as stated: after an indexed file was deleted or renamed and a forced
\* scan ran on a directory holding its old path, no row has the old path and
\* episode_exists for the file's title, season, episode and language is
\* False.
C6_GoneFileForgotten ==
    \A t \in Threads, i \in StdFiles :
        GoneAndRescanned(t, i)
        => /\ RowsOf(db.episode_files, i) = {}
           /\ ~ExistsFor(db.episode_files, i).found

\* C6 amended: no row has the old path, and episode_exists is True only
\* through the row of another path (the renamed file, or another file of the
\* same episode).
C6_GoneFileRowRemoved ==
    \A t \in Threads, i \in StdFiles :
        GoneAndRescanned(t, i)
        => /\ RowsOf(db.episode_files, i) = {}
           /\ ExistsFor(db.episode_files, i).found
              => \E j \in StdFiles \ {i} :
                    /\ RowsOf(db.episode_files, j) # {}
                    /\ ExistsFor(RowsOf(db.episode_files, j), i).found

\* C6 happens: an indexed file was renamed, the forced scan of its directory
\* has run, and the episode is found under the new path.
C6_Witness ==
    \E t \in Threads, i \in StdFiles :
        GoneAndRescanned(t, i) /\ ExistsFor(db.episode_files, i).found

\* A thread is between loading the existing index and writing the scan
\* record.
ScanInProgress == \E t \in Threads : pc[t] \in {"walk", "record"}

\* C7: is_currently_indexing() is True while a thread is inside a scan that
\* was not skipped, and False when no scan is in progress.
C7_IndexingVisible ==
    /\ ScanInProgress => is_currently_indexing
    /\ Quiet => ~is_currently_indexing

\* C8: get_anime_metadata(slug) returns None for a slug never saved; after
\* save_anime_metadata(slug, title, ttl) at t0 with no later save or
\* invalidation it returns the record with that slug and title while
\* now - t0 <= ttl and None once now - t0 > ttl.
C8_SaveGetRoundTrip ==
    q.op = "get_anime_metadata"
    => LET s == saved[q.slug]
       IN /\ ~s.set => ~q.found
          /\ (s.set /\ ~s.invalidated /\ now - s.at <= s.ttl)
             => (q.found /\ q.row.slug = q.slug /\ q.row.title = s.title)
          /\ (s.set /\ ~s.invalidated /\ now - s.at > s.ttl) => ~q.found

\* C8 happens: a record saved in this run is read back before it expires.
C8_Witness ==
    /\ q.op = "get_anime_metadata"
    /\ saved[q.slug].set
    /\ ~saved[q.slug].invalidated
    /\ saved[q.slug].at >= Epoch0
    /\ q.found

\* C9: get_anime_metadata(slug) right after invalidate_cache_for_anime(slug)
\* on a cached slug returns None, whatever the ttl and the time, and the row
\* is still in anime_metadata.
C9_InvalidateThenMiss ==
    (q.op = "get_anime_metadata" /\ q.afterInvalidate)
    => /\ ~q.found
       /\ \E r \in anime_metadata : r.slug = q.slug

\* A link of the chain anime -> season -> episode is missing: no fresh row
\* for the slug, no season of that number for the anime, or no episode of
\* that number for the season.
ChainBroken(slug, season_number, episode_number) ==
    LET animes == {a \in anime_metadata :
                      a.slug = slug /\ now - a.last_updated <= a.ttl}
        seasons == {s \in season_metadata :
                       /\ s.season_number = season_number
                       /\ \E a \in animes : s.anime_id = a.id}
        episodes == {e \in episode_metadata :
                        /\ e.episode_number = episode_number
                        /\ \E s \in seasons : e.season_id = s.id}
    IN animes = {} \/ seasons = {} \/ episodes = {}

\* C10: get_available_languages(slug, season, episode) returns the empty
\* list, and returns normally, whenever a link of the chain is broken.
C10_BrokenChainIsEmpty ==
    (/\ q.op = "get_available_languages"
     /\ ChainBroken(q.slug, q.season, q.episode))
    => q.ok /\ q.langs = {}

\* C10 happens: the anime is cached and fresh, but the season asked for has
\* no row.
C10_Witness ==
    /\ q.op = "get_available_languages"
    /\ ChainBroken(q.slug, q.season, q.episode)
    /\ \E a \in anime_metadata : a.slug = q.slug /\ now - a.last_updated <= a.ttl
    /\ season_metadata # {}

\* The episode rows that the chain anime -> season -> episode leads to.
ChainEpisodes(slug, season_number, episode_number) ==
    {e \in episode_metadata :
        /\ e.episode_number = episode_number
        /\ \E s \in season_metadata, a \in anime_metadata :
              /\ e.season_id = s.id
              /\ s.season_number = season_number
              /\ s.anime_id = a.id
              /\ a.slug = slug
              /\ now - a.last_updated <= a.ttl}

\* C11: when the chain resolves, get_available_languages returns exactly the
\* languages that have a row for the episode with is_available true and
\* now - last_checked <= max_age.
C11_AvailableAndFresh ==
    (/\ q.op = "get_available_languages"
     /\ ~ChainBroken(q.slug, q.season, q.episode))
    => q.langs =
         {l \in MetaLanguages :
             \E r \in language_availability, e \in ChainEpisodes(q.slug, q.season, q.episode) :
                /\ r.episode_id = e.id
                /\ r.language = l
                /\ r.is_available
                /\ now - r.last_checked <= q.max_age}

\* C11 happens: the chain resolves, one language of the episode is returned
\* and a row of the episode is left out.
C11_Witness ==
    /\ q.op = "get_available_languages"
    /\ ~ChainBroken(q.slug, q.season, q.episode)
    /\ q.langs # {}
    /\ \E r \in language_availability, e \in ChainEpisodes(q.slug, q.season, q.episode) :
          r.episode_id = e.id /\ r.language \notin q.langs

\* No table of the cache holds two rows with the same natural key.
NaturalKeysUnique ==
    /\ \A r1 \in anime_metadata, r2 \in anime_metadata :
          r1.slug = r2.slug => r1 = r2
    /\ \A r1 \in season_metadata, r2 \in season_metadata :
          (r1.anime_id = r2.anime_id /\ r1.season_number = r2.season_number)
          => r1 = r2
    /\ \A r1 \in episode_metadata, r2 \in episode_metadata :
          (r1.season_id = r2.season_id /\ r1.episode_number = r2.episode_number)
          => r1 = r2
    /\ \A r1 \in language_availability, r2 \in language_availability :
          (r1.episode_id = r2.episode_id /\ r1.language = r2.language)
          => r1 = r2

\* A save turned the table old into new: the rows of other keys are as they
\* were, the key has one row, that row has the returned id and the saved
\* values, and the id is the one the key had before.
Upserted(old, new, IsKey(_), id, Stored(_)) ==
    /\ \A r \in old : ~IsKey(r) => r \in new
    /\ \A r \in new : ~IsKey(r) => r \in old
    /\ \E r \in new :
          /\ IsKey(r) /\ r.id = id /\ Stored(r)
          /\ \A x \in new : IsKey(x) => x = r
    /\ \A r \in old : IsKey(r) => r.id = id
    /\ \A r \in old : ~IsKey(r) => r.id # id

\* The step is a save_..._metadata or save_language_availability call.
SaveStep ==
    /\ nMeta' = nMeta + 1
    /\ q'.op \in {"save_anime_metadata", "save_season_metadata",
                  "save_episode_metadata", "save_language_availability"}

\* C12: every save leaves one row per natural key, returns the id that the
\* key's row had before (the row of a repeated save keeps its id), stores
\* the new values and timestamp in it, and changes no row of another key and
\* no other table.
C12_SavesAreUpserts ==
    [][SaveStep =>
        /\ NaturalKeysUnique'
        /\ q'.op = "save_anime_metadata" =>
              /\ Upserted(anime_metadata, anime_metadata',
                          LAMBDA r : r.slug = q'.slug, q'.id,
                          LAMBDA r : /\ r.title = saved'[q'.slug].title
                                     /\ r.ttl = saved'[q'.slug].ttl
                                     /\ r.last_updated = now)
              /\ UNCHANGED <<season_metadata, episode_metadata,
                             language_availability>>
        /\ q'.op = "save_season_metadata" =>
              /\ Upserted(season_metadata, season_metadata',
                          LAMBDA r : r.anime_id = q'.parent /\ r.season_number = q'.season,
                          q'.id, LAMBDA r : r.last_updated = now)
              /\ UNCHANGED <<anime_metadata, episode_metadata,
                             language_availability>>
        /\ q'.op = "save_episode_metadata" =>
              /\ Upserted(episode_metadata, episode_metadata',
                          LAMBDA r : r.season_id = q'.parent /\ r.episode_number = q'.episode,
                          q'.id, LAMBDA r : r.last_updated = now)
              /\ UNCHANGED <<anime_metadata, season_metadata,
                             language_availability>>
        /\ q'.op = "save_language_availability" =>
              /\ Upserted(language_availability, language_availability',
                          LAMBDA r : r.episode_id = q'.parent /\ r.language = q'.language,
                          q'.id,
                          LAMBDA r : r.is_available = q'.flag /\ r.last_checked = now)
              /\ UNCHANGED <<anime_metadata, season_metadata, episode_metadata>>
    ]_vars

\* C12 happens: a language's availability was saved again for the same
\* episode with the other value.
C12_Witness ==
    /\ q.op = "save_language_availability"
    /\ q.existed
    /\ \E r \in language_availability :
          /\ r.id = q.id /\ r.episode_id = q.parent /\ r.language = q.language
          /\ ~r.is_available

\* save_download_stats has returned to t.
StatsReturned(t) == AtReturn(t) /\ ret[t].kind = "stats"

\* C13: every call of save_download_stats adds exactly one download_stats
\* row: with the episode_id it was given, and with a null episode_id (0) when
\* none was given and the language is absent or has no word in it.
C13_StatsAlwaysInserted ==
    \A t \in Threads :
        StatsReturned(t)
        => LET new == db.download_stats \ ret[t].snap.download_stats
               a == ret[t].args
           IN /\ Cardinality(new) = 1
              /\ ret[t].snap.download_stats \subseteq db.download_stats
              /\ \A r \in new :
                    /\ a.episode_id # 0 => r.episode_id = a.episode_id
                    /\ (a.episode_id = 0 /\ (~a.has_language \/ Strip(a.language) = <<>>))
                       => r.episode_id = 0

\* get_last_scan_time has returned to t.
LastScanReturned(t) == AtReturn(t) /\ ret[t].kind = "last_scan"

\* Directory c is p or lies below it.
WithinDir(c, p) == c = p \/ IsPrefix(p \o <<"/">>, c)

\* C15: when only one directory P has been scanned, get_last_scan_time(C) is
\* the last_scan recorded for P for every C at or below P, and None for a C
\* that is neither.
C15_ParentScanCounts ==
    \A t \in Threads :
        LET scanned == {r.directory : r \in db.scan_history}
        IN (LastScanReturned(t) /\ Cardinality(scanned) <= 1)
           => IF \E p \in scanned : WithinDir(ret[t].dir, p)
              THEN /\ ret[t].result # NoTime
                   /\ \A p \in scanned : ret[t].result = completed[p]
              ELSE ret[t].result = NoTime

\* C15 happens: only the parent was scanned and the child is asked for.
C15_Witness ==
    \E t \in Threads :
        /\ LastScanReturned(t)
        /\ {r.directory : r \in db.scan_history} = {DirA}
        /\ ret[t].dir = DirB
        /\ ret[t].result # NoTime

\* episode_exists has returned to t, or has raised.
ExistsReturned(t) == AtReturn(t) /\ ret[t].kind \in {"found", "missing", "raised"}

\* needle occurs in hay, character for character.
HasSubstring(hay, needle) ==
    \E k \in 0..(Len(hay) - Len(needle)) :
        SubSeq(hay, k + 1, k + Len(needle)) = needle

\* The five spellings of the requested language.
FiveVariants(language) ==
    {language, ReplaceSpace(language, "."), ReplaceSpace(language, "_"),
     ReplaceSpace(language, "-"), FirstWord(language)}

\* C17: episode_exists returns True exactly when a row's title equals,
\* starts with or contains the sanitized title, its season and episode are
\* the arguments, and its language contains one of the five variants.
C17_TrueIffRowContains ==
    \A t \in Threads :
        (ExistsReturned(t) /\ ret[t].kind # "raised")
        => LET a == ret[t].args
           IN ret[t].kind = "found"
              <=> \E r \in db.episode_files :
                     /\ HasSubstring(r.title, sanitize_path(a.title))
                     /\ r.season = a.season
                     /\ r.episode = a.episode
                     /\ \E v \in FiveVariants(a.language) :
                           HasSubstring(r.language, v)

\* C18: episode_exists returns a boolean for every input and lets no
\* exception escape.
C18_ExistsNeverRaises ==
    \A t \in Threads : ExistsReturned(t) => ret[t].kind \in {"found", "missing"}

\* scan_directory has returned to t and the directory was missing from the
\* call to the return.
MissingDirScanned(t) ==
    /\ AtReturn(t)
    /\ ret[t].kind \in {"nodir", "skipped", "scanned"}
    /\ ret[t].dir \notin dirs
    /\ ret[t].fsops = nFsOps

\* C19: scan_directory on a directory that does not exist returns 0 and
\* leaves episode_files and scan_history as they were.
C19_MissingDirIsNoOp ==
    \A t \in Threads :
        MissingDirScanned(t)
        => /\ ret[t].result = 0
           /\ db.episode_files = ret[t].snap.episode_files
           /\ db.scan_history = ret[t].snap.scan_history

\* C19 happens: a forced scan of a removed directory whose files are still
\* indexed.
C19_Witness ==
    \E t \in Threads :
        /\ MissingDirScanned(t)
        /\ ret[t].force
        /\ \E r \in db.episode_files : WithinDir(r.file_path, ret[t].dir)
        /\ \E r \in db.scan_history : r.directory = ret[t].dir

\* C16: any two get_db() calls, from any threads and overlapping or not,
\* return the same instance, and EpisodeDatabase is constructed at most once.
C16_OneInstance ==
    /\ made <= 1
    /\ \A t \in Threads, u \in Threads :
          \A i \in 1..Len(got[t]), j \in 1..Len(got[u]) : got[t][i] = got[u][j]

\* C20: a name of the form "<title> - Movie <n> (<language>).<ext>" parses
\* to (title, 0, n, language), so that the scan indexes it with season 0.
C20_MovieIsSeasonZero ==
    \A t \in ParseTitles, n \in ParseNumbers, l \in ParseLanguages, x \in ParseExts :
        (parsed.done /\ filename = MovieName(t, n, l, x))
        => parsed.info = Info(t, 0, IntOf(n), l)

\* Some call has not returned.
CallsPending == \E t \in Threads : pc[t] # "idle"

C21_NoInstanceWithoutTables ==
    \A t \in Threads : \A i \in 1..Len(got[t]) : got[t][i] \notin no_tables

\* C22: the metadata hierarchy has no orphan: every season names an
\* existing anime, every episode an existing season and every
\* language_availability row an existing episode.
C22_NoOrphans ==
    /\ \A r \in season_metadata : \E a \in anime_metadata : a.id = r.anime_id
    /\ \A r \in episode_metadata : \E x \in season_metadata : x.id = r.season_id
    /\ \A r \in language_availability :
          \E e \in episode_metadata : e.id = r.episode_id

\* A scan that was not skipped has returned to t, file i lies under its
\* directory and was indexed with another mtime than it has on disk, and the
\* tree did not change during the scan.
ChangedAndRescanned(t, i) ==
    /\ AtReturn(t)
    /\ ret[t].kind = "scanned"
    /\ ret[t].fsops = nFsOps
    /\ Under(ret[t].dir, i)
    /\ fs[i] # NoFile
    /\ \E r \in RowsOf(ret[t].snap.episode_files, i) : r.last_modified # fs[i]

\* C23: a scan re-indexes every indexed file whose mtime differs from the
\* stored one, larger or smaller: afterwards the file's rows carry its
\* current mtime.
C23_ChangedFileReindexed ==
    \A t \in Threads, i \in Files :
        ChangedAndRescanned(t, i)
        => /\ RowsOf(db.episode_files, i) # {}
           /\ \A r \in RowsOf(db.episode_files, i) : r.last_modified = fs[i]

\* save_anime_metadata has returned to t.
SaveReturned(t) == AtReturn(t) /\ ret[t].kind = "saved"

\* C24: concurrent save_anime_metadata calls all succeed: each returns the
\* id of the one row of its slug, and none returns None (0).
C24_ConcurrentUpsertsSucceed ==
    \A t \in Threads :
        SaveReturned(t)
        => /\ ret[t].result # 0
           /\ \A r \in anime_metadata : r.slug = ret[t].slug => r.id = ret[t].result
           /\ \E r \in anime_metadata : r.slug = ret[t].slug

\* u is inside scan_directory and between two of its statements.
BetweenStatements(u) == pc[u] \in {"load", "walk", "record"} /\ ~frame[u].blocked

C26_OneStatementAtATime ==
    Cardinality({t \in Threads : inside[t] # 0}) <= 1

C28_InfersOccurringLabel ==
    inferred.done =>
        LET file_path == inferred.file_path
            occurring == {l \in LanguageLabels : LabelOccurs(l, file_path)}
            by_word == {l \in LanguageLabels : ContainsCI(file_path, FirstWord(l))}
        IN /\ occurring # {} => inferred.language \in occurring
           /\ (occurring = {} /\ by_word # {}) => inferred.language \in by_word
           /\ (occurring = {} /\ by_word = {}) => inferred.language = LangUnknown

\* The handler's scan has returned for a download that wrote a new file
\* that the index did not know.
DownloadDone(t) ==
    /\ pc[t] = "done"
    /\ ret[t].kind = "scanned"
    /\ ret[t].file # 0
    /\ ret[t].new

\* C29: the download_stats row that handle_download_action records for a
\* new, previously unindexed file has a non-null episode_id, and that id is
\* the id of the episode_files row of the downloaded file.
C29_StatNamesDownloadedFile ==
    \A t \in Threads :
        DownloadDone(t) =>
            \E s \in db.download_stats :
                /\ s.id = ret[t].stat
                /\ s.episode_id # 0
                /\ \E r \in db.episode_files :
                       r.id = s.episode_id /\ r.file_path = FilePath(ret[t].file)

\* File path p is on disk after the step.
OnDiskNext(p) == \E i \in Files : FilePath(i) = p /\ fs'[i] # NoFile

\* C30: a download_stats row with a non-null episode_id keeps naming the
\* same file: while the file of the joined episode_files row stays on disk,
\* no step leaves the id without a row or with the row of another file.
C30_StatKeepsItsFile ==
    [][\A s \in db.download_stats, r \in db.episode_files :
          (/\ s.episode_id # 0
           /\ r.id = s.episode_id
           /\ OnDiskNext(r.file_path))
          => \E r2 \in db'.episode_files :
                 r2.id = s.episode_id /\ r2.file_path = r.file_path]_vars

====
